---- MODULE Spec2Model ----
(***************************************************************************)
(* OpenLight: the layer / frame / keyframe graph of a Document, the       *)
(* undo/redo HistoryManager with its concrete commands, the Document's     *)
(* playhead and events, the Timeline's playback and the tween engine.      *)
(*                                                                         *)
(* Modelling conventions                                                   *)
(*  - generateUID() is a fresh-id counter (nextId); Layer.layerCount is    *)
(*    the static counter of constructed layers.                            *)
(*  - a Shape is [id, copies, transform]: copies counts the " Copy"       *)
(*    suffixes that Shape.clone() appends to the name.  Paths and styles   *)
(*    are not changed by any operation modelled here and are left out.     *)
(*  - numbers are JavaScript doubles.  The model draws integer transform   *)
(*    components and a tween progress that is a multiple of 1/ProgressDen  *)
(*    (a power of two), on which the interpolation arithmetic of Tween.ts  *)
(*    is exact; an interpolated value v is held as the integer v*EasedDen. *)
(*  - a Frame carries the flag plain: TRUE for a frame that is a plain     *)
(*    JSON object (built by toJSON and handed to new Layer(data), which    *)
(*    does not revive it), FALSE for an instance of class Frame.  A method *)
(*    call on a plain frame or on a plain shape is a TypeError; a thrown   *)
(*    exception is the field threw of an operation's result.               *)
(*  - optional values (T | null | undefined) are sequences of length <= 1. *)
(*  - where the Document's methods or the HistoryManager are exercised no *)
(*    callback is subscribed to the Document's own events; the listeners   *)
(*    of the HistoryManager's historyChange / render events may throw.     *)
(*    Callbacks on the Document's events are the subject of SpecEvents.    *)
(*  - MoveShapesCommand has a section of its own (SpecMove);              *)
(*    TransformShapesCommand, which finds its shapes by the same           *)
(*    findShape(), is not among the commands here.                         *)
(*  - a session builds its commands on the selected layer at the playhead; *)
(*    a composite holds plain commands (one level).                        *)
(*  - operators that are expanded in many places take their argument as a  *)
(*    parameter (ExecuteTry, CompositeExecuteAt, ...) instead of a LET.    *)
(***************************************************************************)
EXTENDS Integers, Sequences, FiniteSets, TLC

VARIABLES
    layers,            \* Document.layers
    currentFrame,      \* Document._currentFrame
    selectedLayerId,   \* Document._selectedLayerId (0 = null)
    selectedShapeIds,  \* Document._selectedShapeIds
    nextId,            \* next value of generateUID()
    layerCount,        \* Layer.layerCount (static)
    undoStack,         \* HistoryManager.undoStack
    redoStack,         \* HistoryManager.redoStack
    maxHistory,        \* HistoryManager.maxHistory
    isExecuting,       \* HistoryManager.isExecuting
    pc,                \* "idle", or the HistoryManager method whose try block is running
    cur,               \* the command held by the running method (<<>> when idle)
    result,            \* outcome of the latest call
    log,               \* the calls the latest operation made: <<argument, method>>, with
                       \* the events emitted or the value returned where a property needs it
    nCalls,            \* accepted top-level calls so far
    nCmds,             \* commands constructed so far (ids of commands)
    trace,             \* the calls that ran a command, in order (see the HistoryManager)
    snaps,             \* the layer stack at construction and after each executed command
    moved,             \* the playhead was moved since the latest execute() returned
    listeners,         \* Document.listeners: event name -> callbacks in subscription order
    isPlaying,         \* TimelineUI.isPlaying
    playInterval       \* TimelineUI.playInterval is set (FALSE = null)

vars == <<layers, currentFrame, selectedLayerId, selectedShapeIds, nextId, layerCount,
          undoStack, redoStack, maxHistory, isExecuting, pc, cur, result, log,
          nCalls, nCmds, trace, snaps, moved, listeners, isPlaying, playInterval>>

uiVars == <<listeners, isPlaying, playInterval>>

docVars == <<layers, currentFrame, selectedLayerId, selectedShapeIds, nextId, layerCount>>

\* the event names of the model: the two the application's render loop subscribes to
EventNames == {"frameChange", "render"}

-----------------------------------------------------------------------------
(* Bounds of the model *)

MaxCalls == 3

MaxCmds == 2

MaxFrame == 2

MaxK == 2

MaxId == 9

Surplus == 5

\* ids below this one are drawn where the methods of the Frames or of the Document
\* are called directly
MaxIdFrames == 6

\* layers in the stack of a Document whose methods are called directly
MaxLayers == 2

\* subscriptions the listener table holds at most
MaxSubs == 3

\* a tween progress is a multiple of 1/ProgressDen
ProgressDen == 4

\* the angles handed to lerpAngle are the multiples of AngleStep degrees up to
\* MaxAngleSteps steps either way
AngleStep == 10

MaxAngleSteps == 36

\* shapes in a keyframe handed to the tween engine, and the ids they carry
MaxTweenShapes == 2

\* the scene: the index of the keyframe a tween ends on, and the x a shape is moved to
EndFrame == 10

MoveX == 100

(* Program constants *)

DefaultMaxHistory == 100

MinTotalFrames == 60

NumLayerColors == 8

\* lerpAngle: half a turn and a full turn, in degrees
HalfTurn == 180

FullTurn == 360

-----------------------------------------------------------------------------
(* Helpers *)

Min(S) == CHOOSE x \in S : \A y \in S : x <= y

Max(S) == CHOOSE x \in S : \A y \in S : x >= y

Front(s) == SubSeq(s, 1, Len(s) - 1)

Last(s) == s[Len(s)]

RemoveAt(s, i) == SubSeq(s, 1, i - 1) \o SubSeq(s, i + 1, Len(s))

InsertAt(s, i, e) == SubSeq(s, 1, i - 1) \o <<e>> \o SubSeq(s, i, Len(s))

-----------------------------------------------------------------------------
(* Shape *)

\* createDefaultTransform()
DefaultTransform ==
    [x |-> 0, y |-> 0, scaleX |-> 1, scaleY |-> 1, rotation |-> 0,
     skewX |-> 0, skewY |-> 0, alpha |-> 1]

\* new Shape(): a fresh id, the name 'Shape', the default transform
NewShape(id) == [id |-> id, copies |-> 0, transform |-> DefaultTransform]

\* Shape.clone(): a new id, the name with " Copy" appended, a copy of the transform
ShapeClone(s, id) == [id |-> id, copies |-> s.copies + 1, transform |-> s.transform]

\* shapes.map(s => s.clone()): ids are drawn in list order, starting at n
CloneShapes(shapes, n) == [i \in 1..Len(shapes) |-> ShapeClone(shapes[i], n + i - 1)]

\* position of the first shape with this id (findIndex), 0 when there is none
ShapePos(shapes, shapeId) ==
    LET S == {i \in 1..Len(shapes) : shapes[i].id = shapeId}
    IN  IF S = {} THEN 0 ELSE Min(S)

-----------------------------------------------------------------------------
(* Frame *)

NewFrame(id, index, isKeyframe, isEmpty, shapes) ==
    [id |-> id, index |-> index, isKeyframe |-> isKeyframe,
     isEmpty |-> IF Len(shapes) > 0 THEN FALSE ELSE isEmpty,
     shapes |-> shapes, tweenType |-> "none", easing |-> "undefined",
     duration |-> 1, plain |-> FALSE]

FrameAddShape(f, shape) == [f EXCEPT !.shapes = Append(@, shape), !.isEmpty = FALSE]

\* removeShape that does not recompute isEmpty
FrameRemoveShapeStale(f, shapeId) ==
    LET p == ShapePos(f.shapes, shapeId)
    IN  IF p > 0 THEN [f EXCEPT !.shapes = RemoveAt(f.shapes, p)] ELSE f

\* Frame.removeShape(shapeId)
FrameRemoveShape(f, shapeId) ==
    LET p == ShapePos(f.shapes, shapeId)
    IN  IF p > 0
        THEN LET rest == RemoveAt(f.shapes, p)
             IN  [f EXCEPT !.shapes = rest, !.isEmpty = (Len(rest) = 0)]
        ELSE f

FrameClear(f) == [f EXCEPT !.shapes = <<>>, !.isEmpty = TRUE]

FrameMakeKeyframe(f) == [f EXCEPT !.isKeyframe = TRUE]

FrameMakeBlankKeyframe(f) ==
    [f EXCEPT !.isKeyframe = TRUE, !.shapes = <<>>, !.isEmpty = TRUE, !.tweenType = "none"]

\* a demotion that keeps the tween type
FrameClearKeyframeKeepTween(f) == [f EXCEPT !.isKeyframe = FALSE]

\* Frame.clearKeyframe(): the frame becomes a regular frame
FrameClearKeyframe(f) == [f EXCEPT !.isKeyframe = FALSE, !.tweenType = "none"]

FrameSetMotionTween(f, easing) ==
    IF ~f.isKeyframe THEN f
    ELSE [f EXCEPT !.tweenType = "motion",
                   !.easing = IF easing = "undefined" THEN "linear" ELSE easing]

FrameSetShapeTween(f, easing) ==
    IF ~f.isKeyframe THEN f
    ELSE [f EXCEPT !.tweenType = "shape",
                   !.easing = IF easing = "undefined" THEN "linear" ELSE easing]

FrameRemoveTween(f) == [f EXCEPT !.tweenType = "none", !.easing = "undefined"]

\* Frame.toJSON(): the same fields in a plain object, the shapes as plain objects
FrameToJSON(f) == [f EXCEPT !.plain = TRUE]

-----------------------------------------------------------------------------
(* Layer: operations on the frame list *)

\* the frame list left as push() leaves it, without the sort
SortFramesNone(fs) == fs

\* frames.sort((a, b) => a.index - b.index): a stable sort by index
RECURSIVE SortFrames(_)
SortFrames(fs) ==
    IF Len(fs) <= 1 THEN fs
    ELSE LET sorted == SortFrames(Front(fs))
             f == Last(fs)
             notAfter == {i \in 1..Len(sorted) : sorted[i].index <= f.index}
             k == IF notAfter = {} THEN 0 ELSE Max(notAfter)
         IN  InsertAt(sorted, k + 1, f)

\* getFrame(index): position of the first frame with this index, 0 for undefined
GetFrame(frames, index) ==
    LET S == {i \in 1..Len(frames) : frames[i].index = index}
    IN  IF S = {} THEN 0 ELSE Min(S)

\* a lookup that takes the nearest frame at or before index, keyframe or not
GetKeyframeAtAnyFrame(frames, index) ==
    LET K == {i \in 1..Len(frames) : frames[i].index <= index}
    IN  IF K = {} THEN 0
        ELSE LET top == Max({frames[i].index : i \in K})
             IN  Min({i \in K : frames[i].index = top})

\* getKeyframeAt(index): position of the keyframe with the greatest index <= index
GetKeyframeAt(frames, index) ==
    LET K == {i \in 1..Len(frames) : frames[i].isKeyframe /\ frames[i].index <= index}
    IN  IF K = {} THEN 0
        ELSE LET top == Max({frames[i].index : i \in K})
             IN  Min({i \in K : frames[i].index = top})

\* getNextKeyframe(index): position of the keyframe with the smallest index > index
GetNextKeyframe(frames, index) ==
    LET K == {i \in 1..Len(frames) : frames[i].isKeyframe /\ frames[i].index > index}
    IN  IF K = {} THEN 0
        ELSE LET low == Min({frames[i].index : i \in K})
             IN  Min({i \in K : frames[i].index = low})

\* getShapesAtFrame(index)
GetShapesAtFrame(frames, index) ==
    LET k == GetKeyframeAt(frames, index)
    IN  IF k = 0 THEN <<>> ELSE frames[k].shapes

\* getFrameCount()
GetFrameCount(frames) ==
    IF Len(frames) = 0 THEN 1 ELSE Max({frames[i].index : i \in 1..Len(frames)})

\* The result of a Layer operation: the frame list, the id counter, whether it threw
LayerRes(frames, n, threw) == [frames |-> frames, nextId |-> n, threw |-> threw]

\* s.clone() on the shapes of a plain frame is a TypeError (plain shapes have no methods)
CloneThrows(f) == f.plain /\ Len(f.shapes) > 0

\* Layer.insertKeyframe(index)
LayerInsertKeyframe(frames, index, n) ==
    LET p == GetFrame(frames, index)
    IN  IF p > 0
        THEN IF frames[p].plain
             THEN LayerRes(frames, n, TRUE)                      \* frame.makeKeyframe()
             ELSE LET made == [frames EXCEPT ![p] = FrameMakeKeyframe(@)]
                      k == GetKeyframeAt(made, index - 1)
                  IN  IF made[p].isEmpty /\ k > 0 /\ ~made[k].isEmpty
                      THEN IF CloneThrows(made[k])
                           THEN LayerRes(made, n, TRUE)
                           ELSE LayerRes([made EXCEPT ![p].shapes = CloneShapes(made[k].shapes, n),
                                                      ![p].isEmpty = FALSE],
                                         n + Len(made[k].shapes), FALSE)
                      ELSE LayerRes(made, n, FALSE)
        ELSE LET k == GetKeyframeAt(frames, index)
                 carry == k > 0 /\ ~frames[k].isEmpty
             IN  IF carry /\ CloneThrows(frames[k])
                 THEN LayerRes(frames, n, TRUE)
                 ELSE LET shapes == IF carry THEN CloneShapes(frames[k].shapes, n) ELSE <<>>
                          m == n + Len(shapes)
                          frame == NewFrame(m, index, TRUE, ~carry, shapes)
                      IN  LayerRes(SortFrames(Append(frames, frame)), m + 1, FALSE)

\* Layer.insertBlankKeyframe(index)
LayerInsertBlankKeyframe(frames, index, n) ==
    LET p == GetFrame(frames, index)
    IN  IF p > 0
        THEN IF frames[p].plain
             THEN LayerRes(frames, n, TRUE)                      \* frame.makeBlankKeyframe()
             ELSE LayerRes([frames EXCEPT ![p] = FrameMakeBlankKeyframe(@)], n, FALSE)
        ELSE LayerRes(SortFrames(Append(frames, NewFrame(n, index, TRUE, TRUE, <<>>))),
                      n + 1, FALSE)

\* clearKeyframe without the test "if (index === 1)": the frame is spliced out
LayerClearKeyframeAnyIndex(frames, index, n) ==
    LET p == GetFrame(frames, index)
    IN  IF p > 0 /\ frames[p].isKeyframe
        THEN LayerRes(RemoveAt(frames, p), n, FALSE)
        ELSE LayerRes(frames, n, FALSE)

\* clearKeyframe that treats every index like index 1: the frame is cleared, not removed
LayerClearKeyframeKeep(frames, index, n) ==
    LET p == GetFrame(frames, index)
    IN  IF p > 0 /\ frames[p].isKeyframe
        THEN IF frames[p].plain
             THEN LayerRes(frames, n, TRUE)
             ELSE LayerRes([frames EXCEPT ![p] = FrameClear(@)], n, FALSE)
        ELSE LayerRes(frames, n, FALSE)

\* Layer.clearKeyframe(index)
LayerClearKeyframe(frames, index, n) ==
    LET p == GetFrame(frames, index)
    IN  IF p > 0 /\ frames[p].isKeyframe
        THEN IF index = 1
             THEN IF frames[p].plain
                  THEN LayerRes(frames, n, TRUE)                 \* frame.clear()
                  ELSE LayerRes([frames EXCEPT ![p] = FrameClear(@)], n, FALSE)
             ELSE LayerRes(RemoveAt(frames, p), n, FALSE)
        ELSE LayerRes(frames, n, FALSE)

\* Layer.addShapeAtFrame(index, shape)
LayerAddShapeAtFrame(frames, index, shape, n) ==
    LET k == GetKeyframeAt(frames, index)
    IN  IF k = 0 \/ frames[k].index # index
        THEN LET r == LayerInsertKeyframe(frames, index, n)
                 p == GetFrame(r.frames, index)
             IN  IF r.threw THEN r
                 ELSE LayerRes([r.frames EXCEPT ![p] = FrameAddShape(@, shape)], r.nextId, FALSE)
        ELSE IF frames[k].plain
             THEN LayerRes(frames, n, TRUE)                      \* keyframe.addShape()
             ELSE LayerRes([frames EXCEPT ![k] = FrameAddShape(@, shape)], n, FALSE)

\* new Layer(data) without frames: the id, the default name and colour, a keyframe at 1
NewLayer(n, count) ==
    [id |-> n, name |-> count, visible |-> TRUE, locked |-> FALSE,
     color |-> count % NumLayerColors,
     frames |-> <<NewFrame(n + 1, 1, TRUE, TRUE, <<>>)>>]

\* Layer.toJSON(): the frames as plain objects; f.toJSON() on a plain frame is a TypeError
LayerToJSONThrows(layer) == \E i \in 1..Len(layer.frames) : layer.frames[i].plain

LayerToJSON(layer) == [layer EXCEPT !.frames = [i \in 1..Len(layer.frames) |-> FrameToJSON(layer.frames[i])]]

\* new Layer(data) with data.frames: the frames are taken as they are
LayerFromData(data) == data

-----------------------------------------------------------------------------
(* Document: the world the commands act on *)

World == [layers |-> layers, currentFrame |-> currentFrame,
          selectedLayerId |-> selectedLayerId, selectedShapeIds |-> selectedShapeIds,
          nextId |-> nextId, layerCount |-> layerCount]

\* getLayer(layerId): position of the first layer with this id, 0 for undefined
GetLayer(ls, layerId) ==
    LET S == {i \in 1..Len(ls) : ls[i].id = layerId}
    IN  IF S = {} THEN 0 ELSE Min(S)

\* a setter that stores the value as it is given
SetCurrentFrameUnclamped(w, frame) == [w EXCEPT !.currentFrame = frame]

\* currentFrame setter: the value stored is Math.max(1, frame)
SetCurrentFrame(w, frame) == [w EXCEPT !.currentFrame = IF frame < 1 THEN 1 ELSE frame]

\* totalFrames getter
TotalFrames(w) ==
    Max({MinTotalFrames} \cup {GetFrameCount(w.layers[i].frames) : i \in 1..Len(w.layers)})

\* selectLayer(layerId)
DocSelectLayer(w, layerId) ==
    IF GetLayer(w.layers, layerId) > 0 THEN [w EXCEPT !.selectedLayerId = layerId] ELSE w

\* addLayer(name) with no name given: the new layer goes on top and is selected
DocAddLayer(w) ==
    LET count == w.layerCount + 1
        layer == NewLayer(w.nextId, count)
    IN  [w EXCEPT !.layers = <<layer>> \o @, !.selectedLayerId = layer.id,
                  !.nextId = @ + 2, !.layerCount = count]

\* removeLayer without the test of layers.length
DocRemoveLayerAny(w, layerId) ==
    LET p == GetLayer(w.layers, layerId)
    IN  IF p = 0 THEN w
        ELSE LET rest == RemoveAt(w.layers, p)
             IN  [w EXCEPT !.layers = rest,
                           !.selectedLayerId =
                               IF @ = layerId
                               THEN (IF Len(rest) > 0 THEN rest[1].id ELSE 0)
                               ELSE @]

\* removeLayer(layerId)
DocRemoveLayer(w, layerId) ==
    IF Len(w.layers) <= 1 THEN w
    ELSE LET p == GetLayer(w.layers, layerId)
         IN  IF p = 0 THEN w
             ELSE LET rest == RemoveAt(w.layers, p)
                  IN  [w EXCEPT !.layers = rest,
                                !.selectedLayerId =
                                    IF @ = layerId
                                    THEN (IF Len(rest) > 0 THEN rest[1].id ELSE 0)
                                    ELSE @]

\* selectShape(shapeId) with addToSelection = false
DocSelectShape(w, shapeId) == [w EXCEPT !.selectedShapeIds = {shapeId}]

\* deselectShape(shapeId)
DocDeselectShape(w, shapeId) == [w EXCEPT !.selectedShapeIds = @ \ {shapeId}]

\* clearSelection()
DocClearSelection(w) == [w EXCEPT !.selectedShapeIds = {}]

\* The layer stack as deep equality sees it (the class of an object is not compared)
PubFrame(f) == [id |-> f.id, index |-> f.index, isKeyframe |-> f.isKeyframe,
                isEmpty |-> f.isEmpty, shapes |-> f.shapes, tweenType |-> f.tweenType,
                easing |-> f.easing, duration |-> f.duration]

PubLayers(ls) ==
    [i \in 1..Len(ls) |->
        [ls[i] EXCEPT !.frames = [j \in 1..Len(ls[i].frames) |-> PubFrame(ls[i].frames[j])]]]

-----------------------------------------------------------------------------
(* Commands.  A command is a record: its constructor arguments and the      *)
(* private fields that execute() fills in.  cid names the command object.   *)

AddShapeCommand(cid, layerId, frameIndex, shape) ==
    [type |-> "addShape", cid |-> cid, layerId |-> layerId, frameIndex |-> frameIndex,
     shape |-> shape]

RemoveShapesCommand(cid, shapeIds) ==
    [type |-> "removeShapes", cid |-> cid, shapeIds |-> shapeIds, removedShapes |-> <<>>]

InsertKeyframeCommand(cid, layerId, frameIndex, blank) ==
    [type |-> "insertKeyframe", cid |-> cid, layerId |-> layerId, frameIndex |-> frameIndex,
     blank |-> blank, wasKeyframe |-> FALSE, previousFrameData |-> <<>>]

ClearKeyframeCommand(cid, layerId, frameIndex) ==
    [type |-> "clearKeyframe", cid |-> cid, layerId |-> layerId, frameIndex |-> frameIndex,
     frameData |-> <<>>]

AddLayerCommand(cid) == [type |-> "addLayer", cid |-> cid, layerId |-> 0]

RemoveLayerCommand(cid, layerId) ==
    [type |-> "removeLayer", cid |-> cid, layerId |-> layerId, layerIndex |-> -1,
     layerData |-> <<>>]

SetTweenCommand(cid, layerId, frameIndex, tweenType, easing) ==
    [type |-> "setTween", cid |-> cid, layerId |-> layerId, frameIndex |-> frameIndex,
     tweenType |-> tweenType, easing |-> easing,
     previousTweenType |-> "none", previousEasing |-> "undefined"]

CompositeCommand(cid, commands) == [type |-> "composite", cid |-> cid, commands |-> commands]

\* The outcome of a command method: the world, the command, whether it threw
CmdRes(w, c, threw) == [w |-> w, c |-> c, threw |-> threw]

\* The world with the frames of layer p replaced by a Layer operation's result
WithLayerRes(w, p, r) == [w EXCEPT !.layers[p].frames = r.frames, !.nextId = r.nextId]

\* Shape.fromJSON does not exist on class Shape (src/src/core/Shape.ts declares no such
\* member): shapes.map(s => Shape.fromJSON(s)) is a TypeError as soon as the list has
\* an element, and the empty list for an empty list.
ShapesFromJSONThrows(shapes) == Len(shapes) > 0

(* ---- AddShapeCommand ---- *)

AddShapeExecute(c, w) ==
    LET p == GetLayer(w.layers, c.layerId)
    IN  IF p = 0 THEN CmdRes(w, c, FALSE)
        ELSE LET r == LayerAddShapeAtFrame(w.layers[p].frames, c.frameIndex, c.shape, w.nextId)
             IN  IF r.threw THEN CmdRes(WithLayerRes(w, p, r), c, TRUE)
                 ELSE CmdRes(DocSelectShape(WithLayerRes(w, p, r), c.shape.id), c, FALSE)

AddShapeUndo(c, w) ==
    LET p == GetLayer(w.layers, c.layerId)
    IN  IF p = 0 THEN CmdRes(w, c, FALSE)
        ELSE LET k == GetKeyframeAt(w.layers[p].frames, c.frameIndex)
             IN  IF k = 0 THEN CmdRes(DocDeselectShape(w, c.shape.id), c, FALSE)
                 ELSE IF w.layers[p].frames[k].plain
                      THEN CmdRes(w, c, TRUE)                    \* keyframe.removeShape()
                      ELSE CmdRes(DocDeselectShape(
                                    [w EXCEPT !.layers[p].frames[k] = FrameRemoveShape(@, c.shape.id)],
                                    c.shape.id), c, FALSE)

(* ---- RemoveShapesCommand ---- *)

\* the inner loop of execute() over this.shapeIds, on the keyframe at position k of layer p
RECURSIVE RemoveShapesInner(_, _, _, _, _, _)
RemoveShapesInner(w, p, k, shapeIds, i, removed) ==
    IF i > Len(shapeIds) THEN [w |-> w, removed |-> removed]
    ELSE LET kf == w.layers[p].frames[k]
             sp == ShapePos(kf.shapes, shapeIds[i])
         IN  IF sp = 0 THEN RemoveShapesInner(w, p, k, shapeIds, i + 1, removed)
             ELSE LET entry == [layerId |-> w.layers[p].id, frameIndex |-> kf.index,
                                shape |-> ShapeClone(kf.shapes[sp], w.nextId)]
                      w2 == [w EXCEPT !.layers[p].frames[k] = FrameRemoveShape(@, shapeIds[i]),
                                      !.nextId = @ + 1]
                  IN  RemoveShapesInner(w2, p, k, shapeIds, i + 1, Append(removed, entry))

\* the outer loop of execute() over document.layers, from layer position p on
RECURSIVE RemoveShapesOuter(_, _, _, _)
RemoveShapesOuter(w, c, p, removed) ==
    IF p > Len(w.layers)
    THEN CmdRes(DocClearSelection(w), [c EXCEPT !.removedShapes = removed], FALSE)
    ELSE LET k == GetKeyframeAt(w.layers[p].frames, w.currentFrame)
         IN  IF k = 0 THEN RemoveShapesOuter(w, c, p + 1, removed)
             ELSE IF w.layers[p].frames[k].plain /\ Len(c.shapeIds) > 0
                  THEN CmdRes(w, [c EXCEPT !.removedShapes = removed], TRUE)  \* keyframe.getShape()
                  ELSE LET r == RemoveShapesInner(w, p, k, c.shapeIds, 1, removed)
                       IN  RemoveShapesOuter(r.w, c, p + 1, r.removed)

RemoveShapesExecute(c, w) == RemoveShapesOuter(w, c, 1, <<>>)

\* undo(): every removed entry is put back as a clone of the stored clone
RECURSIVE RemoveShapesUndoFrom(_, _, _)
RemoveShapesUndoFrom(c, w, i) ==
    IF i > Len(c.removedShapes) THEN CmdRes(w, c, FALSE)
    ELSE LET e == c.removedShapes[i]
             p == GetLayer(w.layers, e.layerId)
         IN  IF p = 0 THEN RemoveShapesUndoFrom(c, w, i + 1)
             ELSE LET k == GetKeyframeAt(w.layers[p].frames, e.frameIndex)
                  IN  IF k = 0 THEN RemoveShapesUndoFrom(c, w, i + 1)
                      ELSE LET w1 == [w EXCEPT !.nextId = @ + 1]            \* shape.clone()
                           IN  IF w.layers[p].frames[k].plain
                               THEN CmdRes(w1, c, TRUE)                    \* keyframe.addShape()
                               ELSE RemoveShapesUndoFrom(c,
                                        [w1 EXCEPT !.layers[p].frames[k] =
                                            FrameAddShape(@, ShapeClone(e.shape, w.nextId))],
                                        i + 1)

RemoveShapesUndo(c, w) == RemoveShapesUndoFrom(c, w, 1)

(* ---- InsertKeyframeCommand ---- *)

InsertKeyframeExecute(c, w) ==
    LET p == GetLayer(w.layers, c.layerId)
    IN  IF p = 0 THEN CmdRes(w, c, FALSE)
        ELSE LET frames == w.layers[p].frames
                 e == GetFrame(frames, c.frameIndex)
                 c1 == IF e > 0 THEN [c EXCEPT !.wasKeyframe = frames[e].isKeyframe] ELSE c
             IN  IF e > 0 /\ frames[e].plain
                 THEN CmdRes(w, c1, TRUE)                        \* existingFrame.toJSON()
                 ELSE LET c2 == IF e > 0
                                THEN [c1 EXCEPT !.previousFrameData = <<FrameToJSON(frames[e])>>]
                                ELSE c1
                          r == IF c.blank
                               THEN LayerInsertBlankKeyframe(frames, c.frameIndex, w.nextId)
                               ELSE LayerInsertKeyframe(frames, c.frameIndex, w.nextId)
                      IN  CmdRes(WithLayerRes(w, p, r), c2, r.threw)

InsertKeyframeUndo(c, w) ==
    LET p == GetLayer(w.layers, c.layerId)
    IN  IF p = 0 THEN CmdRes(w, c, FALSE)
        ELSE LET frames == w.layers[p].frames
             IN  IF Len(c.previousFrameData) > 0 /\ c.wasKeyframe
                 THEN LET e == GetFrame(frames, c.frameIndex)
                          prev == c.previousFrameData[1]
                      IN  IF e = 0 THEN CmdRes(w, c, FALSE)
                          ELSE IF ShapesFromJSONThrows(prev.shapes)
                               THEN CmdRes(w, c, TRUE)
                               ELSE CmdRes([w EXCEPT !.layers[p].frames[e] =
                                               [@ EXCEPT !.shapes = <<>>,
                                                         !.isEmpty = prev.isEmpty,
                                                         !.tweenType = prev.tweenType,
                                                         !.easing = prev.easing]],
                                           c, FALSE)
                 ELSE LET r == LayerClearKeyframe(frames, c.frameIndex, w.nextId)
                      IN  CmdRes(WithLayerRes(w, p, r), c, r.threw)

(* ---- ClearKeyframeCommand ---- *)

ClearKeyframeExecute(c, w) ==
    LET p == GetLayer(w.layers, c.layerId)
    IN  IF p = 0 THEN CmdRes(w, c, FALSE)
        ELSE LET frames == w.layers[p].frames
                 e == GetFrame(frames, c.frameIndex)
             IN  IF e > 0 /\ frames[e].isKeyframe
                 THEN IF frames[e].plain
                      THEN CmdRes(w, c, TRUE)                    \* frame.toJSON()
                      ELSE LET r == LayerClearKeyframe(frames, c.frameIndex, w.nextId)
                           IN  CmdRes(WithLayerRes(w, p, r),
                                      [c EXCEPT !.frameData = <<FrameToJSON(frames[e])>>],
                                      r.threw)
                 ELSE CmdRes(w, c, FALSE)

ClearKeyframeUndo(c, w) ==
    IF Len(c.frameData) = 0 THEN CmdRes(w, c, FALSE)
    ELSE LET p == GetLayer(w.layers, c.layerId)
         IN  IF p = 0 THEN CmdRes(w, c, FALSE)
             ELSE LET r == LayerInsertKeyframe(w.layers[p].frames, c.frameIndex, w.nextId)
                      w1 == WithLayerRes(w, p, r)
                      e == GetFrame(r.frames, c.frameIndex)
                      data == c.frameData[1]
                  IN  IF r.threw \/ ShapesFromJSONThrows(data.shapes)
                      THEN CmdRes(w1, c, TRUE)
                      ELSE CmdRes([w1 EXCEPT !.layers[p].frames[e] =
                                      [@ EXCEPT !.shapes = <<>>,
                                                !.isEmpty = data.isEmpty,
                                                !.tweenType = data.tweenType,
                                                !.easing = data.easing]],
                                  c, FALSE)

(* ---- AddLayerCommand ---- *)

AddLayerExecute(c, w) ==
    LET w1 == DocAddLayer(w)
    IN  CmdRes(w1, [c EXCEPT !.layerId = w1.layers[1].id], FALSE)

AddLayerUndo(c, w) ==
    IF c.layerId # 0 THEN CmdRes(DocRemoveLayer(w, c.layerId), c, FALSE) ELSE CmdRes(w, c, FALSE)

(* ---- RemoveLayerCommand ---- *)

RemoveLayerExecute(c, w) ==
    LET p == GetLayer(w.layers, c.layerId)
    IN  IF p = 0 THEN CmdRes(w, c, FALSE)
        ELSE LET c1 == [c EXCEPT !.layerIndex = p - 1]
             IN  IF LayerToJSONThrows(w.layers[p])
                 THEN CmdRes(w, c1, TRUE)
                 ELSE CmdRes(DocRemoveLayer(w, c.layerId),
                             [c1 EXCEPT !.layerData = <<LayerToJSON(w.layers[p])>>], FALSE)

RemoveLayerUndo(c, w) ==
    IF Len(c.layerData) = 0 \/ c.layerIndex < 0 THEN CmdRes(w, c, FALSE)
    ELSE LET layer == LayerFromData(c.layerData[1])
             at == IF c.layerIndex > Len(w.layers) THEN Len(w.layers) ELSE c.layerIndex
             w1 == [w EXCEPT !.layerCount = @ + 1,
                             !.layers = InsertAt(@, at + 1, layer)]
         IN  CmdRes(DocSelectLayer(w1, layer.id), c, FALSE)

(* ---- SetTweenCommand ---- *)

ApplyTween(f, tweenType, easing) ==
    IF tweenType = "none" THEN FrameRemoveTween(f)
    ELSE IF tweenType = "motion" THEN FrameSetMotionTween(f, easing)
    ELSE IF tweenType = "shape" THEN FrameSetShapeTween(f, easing)
    ELSE f

SetTweenExecute(c, w) ==
    LET p == GetLayer(w.layers, c.layerId)
    IN  IF p = 0 THEN CmdRes(w, c, FALSE)
        ELSE LET frames == w.layers[p].frames
                 e == GetFrame(frames, c.frameIndex)
             IN  IF e = 0 \/ ~frames[e].isKeyframe THEN CmdRes(w, c, FALSE)
                 ELSE LET c1 == [c EXCEPT !.previousTweenType = frames[e].tweenType,
                                          !.previousEasing = frames[e].easing]
                      IN  IF frames[e].plain
                          THEN CmdRes(w, c1, TRUE)               \* frame.removeTween() etc.
                          ELSE CmdRes([w EXCEPT !.layers[p].frames[e] =
                                          ApplyTween(@, c.tweenType, c.easing)], c1, FALSE)

SetTweenUndo(c, w) ==
    LET p == GetLayer(w.layers, c.layerId)
    IN  IF p = 0 THEN CmdRes(w, c, FALSE)
        ELSE LET frames == w.layers[p].frames
                 e == GetFrame(frames, c.frameIndex)
             IN  IF e = 0 \/ ~frames[e].isKeyframe THEN CmdRes(w, c, FALSE)
                 ELSE IF frames[e].plain
                      THEN CmdRes(w, c, TRUE)
                      ELSE CmdRes([w EXCEPT !.layers[p].frames[e] =
                                      ApplyTween(@, c.previousTweenType, c.previousEasing)],
                                  c, FALSE)

(* ---- dispatch on the concrete command classes ---- *)

BasicExecute(c, w) ==
    CASE c.type = "addShape"       -> AddShapeExecute(c, w)
      [] c.type = "removeShapes"   -> RemoveShapesExecute(c, w)
      [] c.type = "insertKeyframe" -> InsertKeyframeExecute(c, w)
      [] c.type = "clearKeyframe"  -> ClearKeyframeExecute(c, w)
      [] c.type = "addLayer"       -> AddLayerExecute(c, w)
      [] c.type = "removeLayer"    -> RemoveLayerExecute(c, w)
      [] c.type = "setTween"       -> SetTweenExecute(c, w)

BasicUndo(c, w) ==
    CASE c.type = "addShape"       -> AddShapeUndo(c, w)
      [] c.type = "removeShapes"   -> RemoveShapesUndo(c, w)
      [] c.type = "insertKeyframe" -> InsertKeyframeUndo(c, w)
      [] c.type = "clearKeyframe"  -> ClearKeyframeUndo(c, w)
      [] c.type = "addLayer"       -> AddLayerUndo(c, w)
      [] c.type = "removeLayer"    -> RemoveLayerUndo(c, w)
      [] c.type = "setTween"       -> SetTweenUndo(c, w)

(* ---- CompositeCommand ---- *)

\* The outcome of a composite's method: as CmdRes, with the sub-command calls it made
CompRes(w, c, threw, calls) == [w |-> w, c |-> c, threw |-> threw, calls |-> calls]

\* the first sub-command execute() visits, and the one it visits after position i
CompositeFirst(n) == 1

CompositeNext(i) == i + 1

\* the first sub-command undo() visits, and the one it visits after position i
CompositeUndoFirst(n) == n

CompositeUndoNext(i) == i - 1

\* for (const cmd of this.commands) cmd.execute(): the loop from position i on.
\* CompositeExecuteAt: the loop once the sub-command at i has run with outcome r;
\* an exception leaves the loop.
RECURSIVE CompositeExecuteFrom(_, _, _, _)
CompositeExecuteAt(c, r, i, calls) ==
    IF r.threw THEN CompRes(r.w, [c EXCEPT !.commands[i] = r.c], TRUE, calls)
    ELSE CompositeExecuteFrom([c EXCEPT !.commands[i] = r.c], r.w, CompositeNext(i), calls)

CompositeExecuteFrom(c, w, i, calls) ==
    IF i < 1 \/ i > Len(c.commands) THEN CompRes(w, c, FALSE, calls)
    ELSE CompositeExecuteAt(c, BasicExecute(c.commands[i], w), i,
                            Append(calls, <<i, "execute">>))

\* for (let i = this.commands.length - 1; i >= 0; i--) this.commands[i].undo()
RECURSIVE CompositeUndoFrom(_, _, _, _)
CompositeUndoAt(c, r, i, calls) ==
    IF r.threw THEN CompRes(r.w, [c EXCEPT !.commands[i] = r.c], TRUE, calls)
    ELSE CompositeUndoFrom([c EXCEPT !.commands[i] = r.c], r.w, CompositeUndoNext(i), calls)

CompositeUndoFrom(c, w, i, calls) ==
    IF i < 1 \/ i > Len(c.commands) THEN CompRes(w, c, FALSE, calls)
    ELSE CompositeUndoAt(c, BasicUndo(c.commands[i], w), i,
                         Append(calls, <<i, "undo">>))

\* a command that is not a composite makes no sub-command calls
NoCalls(r) == CompRes(r.w, r.c, r.threw, <<>>)

\* command.execute() and command.undo() of any command
CmdExecute(c, w) ==
    IF c.type = "composite"
    THEN CompositeExecuteFrom(c, w, CompositeFirst(Len(c.commands)), <<>>)
    ELSE NoCalls(BasicExecute(c, w))

CmdUndo(c, w) ==
    IF c.type = "composite"
    THEN CompositeUndoFrom(c, w, CompositeUndoFirst(Len(c.commands)), <<>>)
    ELSE NoCalls(BasicUndo(c, w))

-----------------------------------------------------------------------------
(* The commands a caller constructs in world w.  A new Shape draws its id   *)
(* from generateUID() when the caller builds it, before the command runs.   *)

LayerIds(w) == {w.layers[i].id : i \in 1..Len(w.layers)}

Range(s) == {s[i] : i \in 1..Len(s)}

\* the ids of the shapes getVisibleShapes() shows at the playhead (what a user can pick)
VisibleShapeIds(w) ==
    UNION {{s.id : s \in Range(GetShapesAtFrame(l.frames, w.currentFrame))} :
              l \in {x \in Range(w.layers) : x.visible}}

\* a sub-command of a composite, built on the selected layer at the playhead
SubCommand(w, kind, id) ==
    CASE kind = "addShape" ->
            AddShapeCommand(0, w.selectedLayerId, w.currentFrame, NewShape(id))
      [] kind = "clearKeyframe" ->
            ClearKeyframeCommand(0, w.selectedLayerId, w.currentFrame)
      [] kind = "setTween" ->
            SetTweenCommand(0, w.selectedLayerId, w.currentFrame, "motion", "undefined")

\* the lists of sub-command kinds a composite is built from
CompositeKinds == {<<"addShape", "clearKeyframe">>, <<"addShape", "setTween">>,
                   <<"addShape", "addShape", "setTween">>, <<"setTween", "addShape">>}

-----------------------------------------------------------------------------
(* HistoryManager.  A call of execute / undo / redo that passes the guard    *)
(* takes two steps: the call, up to the point where the command's method is *)
(* entered, and the body, from there to the end of the finally block; calls *)
(* made in between are nested calls.                                        *)
(* trace holds one letter per call that ran a command:                      *)
(*   "e" execute returned or its listener threw,  "x" command.execute threw *)
(*   "u" undo likewise,                           "v" command.undo threw    *)
(*   "r" redo likewise,                           "s" command.execute threw *)

SetWorld(w) ==
    /\ layers' = w.layers
    /\ currentFrame' = w.currentFrame
    /\ selectedLayerId' = w.selectedLayerId
    /\ selectedShapeIds' = w.selectedShapeIds
    /\ nextId' = w.nextId
    /\ layerCount' = w.layerCount

\* a HistoryManager whose methods do not test isExecuting
ReentrancyGuardOff(executing) == FALSE

\* if (this.isExecuting) return ...: the guard at the top of execute / undo / redo
ReentrancyGuard(executing) == executing

\* isExecuting reset on the normal path only (no finally block)
IsExecutingWithoutFinally(threw) == threw

\* finally { this.isExecuting = false }: the flag after the try block, thrown or not
IsExecutingAfter(threw) == FALSE

\* if (this.undoStack.length > this.maxHistory) this.undoStack.shift()
LimitHistory(stack, max) == IF Len(stack) > max THEN Tail(stack) ELSE stack

\* execute(command), up to the call of command.execute().  ids: the generateUID()
\* values the caller drew to build the command.
HistoryExecute(cmd, ids) ==
    IF ReentrancyGuard(isExecuting)
    THEN /\ result' = "execute:ignored"
         /\ UNCHANGED <<docVars, undoStack, redoStack, maxHistory, isExecuting, pc, cur,
                        log, nCalls, nCmds, trace, snaps, moved, uiVars>>
    ELSE /\ isExecuting' = TRUE
         /\ pc' = "execute"
         /\ cur' = <<cmd>>
         /\ result' = "pending"
         /\ nextId' = nextId + ids
         /\ nCmds' = nCmds + 1
         /\ nCalls' = nCalls + 1
         /\ UNCHANGED <<layers, currentFrame, selectedLayerId, selectedShapeIds, layerCount,
                        undoStack, redoStack, maxHistory, log, trace, snaps, moved, uiVars>>

\* execute(command), from command.execute() to the end of the finally block.
\* lthrow: a listener of historyChange throws.
\* r: the outcome of command.execute()
ExecuteTry(r, lthrow) ==
    /\ SetWorld(r.w)
    /\ log' = r.calls
    /\ IF r.threw
       THEN /\ UNCHANGED <<undoStack, redoStack, snaps>>
            /\ result' = "execute:threw"
            /\ trace' = Append(trace, "x")
       ELSE /\ undoStack' = LimitHistory(Append(undoStack, r.c), maxHistory)
            /\ redoStack' = <<>>
            /\ result' = IF lthrow THEN "execute:threw" ELSE "execute:returned"
            /\ trace' = Append(trace, "e")
            /\ snaps' = Append(snaps, PubLayers(r.w.layers))
    /\ isExecuting' = IsExecutingAfter(r.threw \/ lthrow)

ExecuteBody(lthrow) ==
    /\ pc = "execute"
    /\ ExecuteTry(CmdExecute(cur[1], World), lthrow)
    /\ pc' = "idle"
    /\ cur' = <<>>
    /\ moved' = FALSE
    /\ UNCHANGED <<maxHistory, nCalls, nCmds, uiVars>>

\* undo(), up to the call of command.undo()
HistoryUndo ==
    IF Len(undoStack) = 0
    THEN /\ result' = "undo:false:empty"
         /\ UNCHANGED <<docVars, undoStack, redoStack, maxHistory, isExecuting, pc, cur,
                        log, nCalls, nCmds, trace, snaps, moved, uiVars>>
    ELSE IF ReentrancyGuard(isExecuting)
    THEN /\ result' = "undo:false:busy"
         /\ UNCHANGED <<docVars, undoStack, redoStack, maxHistory, isExecuting, pc, cur,
                        log, nCalls, nCmds, trace, snaps, moved, uiVars>>
    ELSE /\ isExecuting' = TRUE
         /\ pc' = "undo"
         /\ cur' = <<Last(undoStack)>>
         /\ undoStack' = Front(undoStack)
         /\ result' = "pending"
         /\ nCalls' = nCalls + 1
         /\ UNCHANGED <<docVars, redoStack, maxHistory, log, nCmds, trace, snaps, moved, uiVars>>

\* undo(), from command.undo() to the end of the finally block.
\* lthrow: a listener of historyChange or render throws.
\* r: the outcome of command.undo()
UndoTry(r, lthrow) ==
    /\ SetWorld(r.w)
    /\ log' = r.calls
    /\ IF r.threw
       THEN /\ UNCHANGED redoStack
            /\ result' = "undo:threw"
            /\ trace' = Append(trace, "v")
       ELSE /\ redoStack' = Append(redoStack, r.c)
            /\ result' = IF lthrow THEN "undo:threw" ELSE "undo:true"
            /\ trace' = Append(trace, "u")
    /\ isExecuting' = IsExecutingAfter(r.threw \/ lthrow)

UndoBody(lthrow) ==
    /\ pc = "undo"
    /\ UndoTry(CmdUndo(cur[1], World), lthrow)
    /\ pc' = "idle"
    /\ cur' = <<>>
    /\ UNCHANGED <<undoStack, maxHistory, nCalls, nCmds, snaps, moved, uiVars>>

\* redo(), up to the call of command.execute()
HistoryRedo ==
    IF Len(redoStack) = 0
    THEN /\ result' = "redo:false:empty"
         /\ UNCHANGED <<docVars, undoStack, redoStack, maxHistory, isExecuting, pc, cur,
                        log, nCalls, nCmds, trace, snaps, moved, uiVars>>
    ELSE IF ReentrancyGuard(isExecuting)
    THEN /\ result' = "redo:false:busy"
         /\ UNCHANGED <<docVars, undoStack, redoStack, maxHistory, isExecuting, pc, cur,
                        log, nCalls, nCmds, trace, snaps, moved, uiVars>>
    ELSE /\ isExecuting' = TRUE
         /\ pc' = "redo"
         /\ cur' = <<Last(redoStack)>>
         /\ redoStack' = Front(redoStack)
         /\ result' = "pending"
         /\ nCalls' = nCalls + 1
         /\ UNCHANGED <<docVars, undoStack, maxHistory, log, nCmds, trace, snaps, moved, uiVars>>

\* redo(), from command.execute() to the end of the finally block
\* r: the outcome of command.execute()
RedoTry(r, lthrow) ==
    /\ SetWorld(r.w)
    /\ log' = r.calls
    /\ IF r.threw
       THEN /\ UNCHANGED undoStack
            /\ result' = "redo:threw"
            /\ trace' = Append(trace, "s")
       ELSE /\ undoStack' = Append(undoStack, r.c)
            /\ result' = IF lthrow THEN "redo:threw" ELSE "redo:true"
            /\ trace' = Append(trace, "r")
    /\ isExecuting' = IsExecutingAfter(r.threw \/ lthrow)

RedoBody(lthrow) ==
    /\ pc = "redo"
    /\ RedoTry(CmdExecute(cur[1], World), lthrow)
    /\ pc' = "idle"
    /\ cur' = <<>>
    /\ UNCHANGED <<redoStack, maxHistory, nCalls, nCmds, snaps, moved, uiVars>>

\* setMaxHistory(max)
SetMaxHistory(max) ==
    LET m == IF max < 1 THEN 1 ELSE max
        drop == IF Len(undoStack) > m THEN Len(undoStack) - m ELSE 0
    IN  /\ maxHistory' = m
        /\ undoStack' = SubSeq(undoStack, drop + 1, Len(undoStack))
        /\ UNCHANGED <<docVars, redoStack, isExecuting, pc, cur, result, log,
                       nCalls, nCmds, trace, snaps, moved, uiVars>>

-----------------------------------------------------------------------------
(* The editor session: between two calls the HistoryManager is idle; the     *)
(* caller builds a command on the selected layer at the playhead and hands  *)
(* it to execute(), or calls undo() / redo(), or moves the playhead.        *)

\* number of shapes the caller builds for the sub-commands before position i
ShapesBefore(kinds, i) == Cardinality({j \in 1..(i - 1) : kinds[j] = "addShape"})

ExecuteAddShape ==
    /\ pc = "idle" /\ nCalls < MaxCalls /\ nCmds < MaxCmds
    /\ HistoryExecute(AddShapeCommand(nCmds + 1, selectedLayerId, currentFrame,
                                      NewShape(nextId)), 1)

ExecuteRemoveShapes ==
    /\ pc = "idle" /\ nCalls < MaxCalls /\ nCmds < MaxCmds
    /\ \E s \in VisibleShapeIds(World) :
          HistoryExecute(RemoveShapesCommand(nCmds + 1, <<s>>), 0)

ExecuteInsertKeyframe ==
    /\ pc = "idle" /\ nCalls < MaxCalls /\ nCmds < MaxCmds
    /\ \E blank \in BOOLEAN :
          HistoryExecute(InsertKeyframeCommand(nCmds + 1, selectedLayerId, currentFrame,
                                               blank), 0)

ExecuteClearKeyframe ==
    /\ pc = "idle" /\ nCalls < MaxCalls /\ nCmds < MaxCmds
    /\ HistoryExecute(ClearKeyframeCommand(nCmds + 1, selectedLayerId, currentFrame), 0)

ExecuteAddLayer ==
    /\ pc = "idle" /\ nCalls < MaxCalls /\ nCmds < MaxCmds
    /\ HistoryExecute(AddLayerCommand(nCmds + 1), 0)

ExecuteRemoveLayer ==
    /\ pc = "idle" /\ nCalls < MaxCalls /\ nCmds < MaxCmds
    /\ HistoryExecute(RemoveLayerCommand(nCmds + 1, selectedLayerId), 0)

ExecuteSetTween ==
    /\ pc = "idle" /\ nCalls < MaxCalls /\ nCmds < MaxCmds
    /\ \E t \in {"motion", "none"} :
          HistoryExecute(SetTweenCommand(nCmds + 1, selectedLayerId, currentFrame,
                                         t, "undefined"), 0)

ExecuteComposite ==
    /\ pc = "idle" /\ nCalls < MaxCalls /\ nCmds < MaxCmds
    /\ \E kinds \in CompositeKinds :
          HistoryExecute(
              CompositeCommand(nCmds + 1,
                  [i \in 1..Len(kinds) |->
                      SubCommand(World, kinds[i], nextId + ShapesBefore(kinds, i))]),
              ShapesBefore(kinds, Len(kinds) + 1))

Undo ==
    /\ pc = "idle" /\ nCalls < MaxCalls
    /\ HistoryUndo

Redo ==
    /\ pc = "idle" /\ nCalls < MaxCalls
    /\ HistoryRedo

\* calls made by the running command or by a listener it notifies
NestedExecute ==
    /\ pc # "idle"
    /\ HistoryExecute(AddLayerCommand(nCmds + 1), 0)

NestedUndo ==
    /\ pc # "idle"
    /\ HistoryUndo

NestedRedo ==
    /\ pc # "idle"
    /\ HistoryRedo

\* the user moves the playhead (document.currentFrame = f)
MovePlayhead ==
    /\ pc = "idle"
    /\ \E f \in 1..MaxFrame :
          /\ f # currentFrame
          /\ currentFrame' = SetCurrentFrame(World, f).currentFrame
    /\ moved' = (nCmds > 0)
    /\ UNCHANGED <<layers, selectedLayerId, selectedShapeIds, nextId, layerCount,
                   undoStack, redoStack, maxHistory, isExecuting, pc, cur, result, log,
                   nCalls, nCmds, trace, snaps, uiVars>>

\* new Document() and new HistoryManager(document): generateUID() gives 1 to the
\* document, 2 to the initial layer and 3 to its first frame
Init ==
    /\ layers = <<NewLayer(2, 1)>>
    /\ currentFrame = 1
    /\ selectedLayerId = 2
    /\ selectedShapeIds = {}
    /\ nextId = 4
    /\ layerCount = 1
    /\ undoStack = <<>>
    /\ redoStack = <<>>
    /\ maxHistory = DefaultMaxHistory
    /\ isExecuting = FALSE
    /\ pc = "idle"
    /\ cur = <<>>
    /\ result = "none"
    /\ log = <<>>
    /\ nCalls = 0
    /\ nCmds = 0
    /\ trace = <<>>
    /\ snaps = <<PubLayers(<<NewLayer(2, 1)>>)>>
    /\ moved = FALSE
    /\ listeners = [event \in EventNames |-> <<>>]
    /\ isPlaying = FALSE
    /\ playInterval = FALSE

Next ==
    \/ ExecuteAddShape
    \/ ExecuteRemoveShapes
    \/ ExecuteInsertKeyframe
    \/ ExecuteClearKeyframe
    \/ ExecuteAddLayer
    \/ ExecuteRemoveLayer
    \/ ExecuteSetTween
    \/ ExecuteComposite
    \/ Undo
    \/ Redo
    \/ NestedExecute
    \/ NestedUndo
    \/ NestedRedo
    \/ MovePlayhead
    \/ \E lthrow \in BOOLEAN : ExecuteBody(lthrow)
    \/ \E lthrow \in BOOLEAN : UndoBody(lthrow)
    \/ \E lthrow \in BOOLEAN : RedoBody(lthrow)

Spec == Init /\ [][Next]_vars

-----------------------------------------------------------------------------
(* The bounded-history scenario: setMaxHistory(K), then maxHistory + Surplus *)
(* commands, then undo() until it returns false.                            *)

BoundSetMaxHistory ==
    /\ pc = "idle" /\ nCalls = 0 /\ maxHistory = DefaultMaxHistory
    /\ \E max \in 0..MaxK : SetMaxHistory(max)

BoundAddShape ==
    /\ pc = "idle" /\ maxHistory # DefaultMaxHistory
    /\ nCalls = nCmds /\ nCmds < maxHistory + Surplus
    /\ HistoryExecute(AddShapeCommand(nCmds + 1, selectedLayerId, currentFrame,
                                      NewShape(nextId)), 1)

BoundRemoveShapes ==
    /\ pc = "idle" /\ maxHistory # DefaultMaxHistory
    /\ nCalls = nCmds /\ nCmds < maxHistory + Surplus
    /\ \E s \in VisibleShapeIds(World) :
          HistoryExecute(RemoveShapesCommand(nCmds + 1, <<s>>), 0)

BoundUndo ==
    /\ pc = "idle" /\ maxHistory # DefaultMaxHistory
    /\ nCmds = maxHistory + Surplus
    /\ HistoryUndo

NextBound ==
    \/ BoundSetMaxHistory
    \/ BoundAddShape
    \/ BoundRemoveShapes
    \/ BoundUndo
    \/ \E lthrow \in BOOLEAN : ExecuteBody(lthrow)
    \/ \E lthrow \in BOOLEAN : UndoBody(lthrow)

SpecBound == Init /\ [][NextBound]_vars

-----------------------------------------------------------------------------
(* The history limit at work: execute(), undo() and redo() on a session of   *)
(* shape and layer additions, with setMaxHistory() called at any idle time.  *)

LimitSetMaxHistory ==
    /\ pc = "idle"
    /\ \E max \in 0..MaxK : SetMaxHistory(max)

LimitExecuteAddShape ==
    /\ pc = "idle" /\ nCalls <= MaxCalls /\ nCmds < MaxCmds
    /\ HistoryExecute(AddShapeCommand(nCmds + 1, selectedLayerId, currentFrame,
                                      NewShape(nextId)), 1)

LimitExecuteAddLayer ==
    /\ pc = "idle" /\ nCalls <= MaxCalls /\ nCmds < MaxCmds
    /\ HistoryExecute(AddLayerCommand(nCmds + 1), 0)

LimitUndo ==
    /\ pc = "idle" /\ nCalls <= MaxCalls
    /\ HistoryUndo

LimitRedo ==
    /\ pc = "idle" /\ nCalls <= MaxCalls
    /\ HistoryRedo

NextLimit ==
    \/ LimitSetMaxHistory
    \/ LimitExecuteAddShape
    \/ LimitExecuteAddLayer
    \/ LimitUndo
    \/ LimitRedo
    \/ \E lthrow \in BOOLEAN : ExecuteBody(lthrow)
    \/ \E lthrow \in BOOLEAN : UndoBody(lthrow)
    \/ \E lthrow \in BOOLEAN : RedoBody(lthrow)

SpecLimit == Init /\ [][NextLimit]_vars

-----------------------------------------------------------------------------
(* One Layer on its own: the layer of Init under any sequence of its four    *)
(* frame operations, and the layer rebuilt from its own JSON                *)
(* (new Layer(layer.toJSON()), whose frames are then plain objects).        *)

LayerStep(r, index, method) ==
    /\ layers' = [layers EXCEPT ![1].frames = r.frames]
    /\ nextId' = r.nextId
    /\ result' = IF r.threw THEN method \o ":threw" ELSE method \o ":returned"
    /\ log' = <<<<index, method>>>>
    /\ UNCHANGED <<currentFrame, selectedLayerId, selectedShapeIds, layerCount,
                   undoStack, redoStack, maxHistory, isExecuting, pc, cur,
                   nCalls, nCmds, trace, snaps, moved, uiVars>>

OpInsertKeyframe ==
    /\ nextId < MaxId
    /\ \E index \in 1..MaxFrame + 1 :
          LayerStep(LayerInsertKeyframe(layers[1].frames, index, nextId),
                    index, "insertKeyframe")

OpInsertBlankKeyframe ==
    /\ nextId < MaxId
    /\ \E index \in 1..MaxFrame + 1 :
          LayerStep(LayerInsertBlankKeyframe(layers[1].frames, index, nextId),
                    index, "insertBlankKeyframe")

OpClearKeyframe ==
    \E index \in 1..MaxFrame + 1 :
        LayerStep(LayerClearKeyframe(layers[1].frames, index, nextId),
                  index, "clearKeyframe")

OpAddShapeAtFrame ==
    /\ nextId < MaxId
    /\ \E index \in 1..MaxFrame + 1 :
          LayerStep(LayerAddShapeAtFrame(layers[1].frames, index, NewShape(nextId),
                                         nextId + 1),
                    index, "addShapeAtFrame")

\* new Layer(layer.toJSON())
OpRebuild ==
    /\ ~LayerToJSONThrows(layers[1])
    /\ layers' = [layers EXCEPT ![1] = LayerFromData(LayerToJSON(layers[1]))]
    /\ layerCount' = layerCount + 1
    /\ result' = "rebuild:returned"
    /\ log' = <<<<0, "rebuild">>>>
    /\ UNCHANGED <<currentFrame, selectedLayerId, selectedShapeIds, nextId,
                   undoStack, redoStack, maxHistory, isExecuting, pc, cur,
                   nCalls, nCmds, trace, snaps, moved, uiVars>>

NextLayer ==
    \/ OpInsertKeyframe
    \/ OpInsertBlankKeyframe
    \/ OpClearKeyframe
    \/ OpAddShapeAtFrame
    \/ OpRebuild

SpecLayer == Init /\ [][NextLayer]_vars

-----------------------------------------------------------------------------
(* One Layer and its Frames: the layer of Init under its four frame           *)
(* operations and under the methods of its Frame objects (layer.getFrame(i) *)
(* hands the Frame out), with the lookups a caller makes in between.        *)

\* a method of the Frame at index was called and left the frame f
FrameStep(f, index, method) ==
    LayerStep(LayerRes([layers[1].frames EXCEPT ![GetFrame(layers[1].frames, index)] = f],
                       nextId, FALSE),
              index, method)

\* layer.getFrame(index).clearKeyframe()
OpFrameClearKeyframe ==
    \E index \in 1..MaxFrame + 1 :
        /\ GetFrame(layers[1].frames, index) > 0
        /\ FrameStep(FrameClearKeyframe(layers[1].frames[GetFrame(layers[1].frames, index)]),
                     index, "Frame.clearKeyframe")

\* layer.getFrame(index).setMotionTween()
OpFrameSetMotionTween ==
    \E index \in 1..MaxFrame + 1 :
        /\ GetFrame(layers[1].frames, index) > 0
        /\ FrameStep(FrameSetMotionTween(layers[1].frames[GetFrame(layers[1].frames, index)],
                                         "undefined"),
                     index, "Frame.setMotionTween")

\* layer.getFrame(index).setShapeTween()
OpFrameSetShapeTween ==
    \E index \in 1..MaxFrame + 1 :
        /\ GetFrame(layers[1].frames, index) > 0
        /\ FrameStep(FrameSetShapeTween(layers[1].frames[GetFrame(layers[1].frames, index)],
                                        "undefined"),
                     index, "Frame.setShapeTween")

\* layer.getKeyframeAt(index): the answer (a list position, 0 for undefined) is logged
OpGetKeyframeAt ==
    \E index \in 1..MaxFrame + 2 :
        /\ log' = <<<<index, "getKeyframeAt", GetKeyframeAt(layers[1].frames, index)>>>>
        /\ result' = "getKeyframeAt:returned"
        /\ UNCHANGED <<docVars, undoStack, redoStack, maxHistory, isExecuting, pc, cur,
                       nCalls, nCmds, trace, snaps, moved, uiVars>>

NextFrames ==
    \/ (nextId < MaxIdFrames /\ OpInsertKeyframe)
    \/ (nextId < MaxIdFrames /\ OpInsertBlankKeyframe)
    \/ OpClearKeyframe
    \/ (nextId < MaxIdFrames /\ OpAddShapeAtFrame)
    \/ OpFrameClearKeyframe
    \/ OpFrameSetMotionTween
    \/ OpFrameSetShapeTween
    \/ OpGetKeyframeAt

SpecFrames == Init /\ [][NextFrames]_vars

-----------------------------------------------------------------------------
(* The Document on its own: its layer, keyframe and shape methods called    *)
(* directly (no HistoryManager), layers locked and unlocked in between, and *)
(* the document saved and loaded again.  The log holds the call's first     *)
(* argument, the method and the events it emitted.                          *)

\* The outcome of a Document method: the world, the value returned, the events
\* emitted in order, whether it threw
DocRes(w, ret, events, threw) == [w |-> w, ret |-> ret, events |-> events, threw |-> threw]

\* selectedLayer getter: position of the selected layer, 0 for null
SelectedLayer(w) ==
    IF w.selectedLayerId = 0 THEN 0 ELSE GetLayer(w.layers, w.selectedLayerId)

\* layerId ? this.getLayer(layerId) : this.selectedLayer  (layerId 0: argument omitted)
TargetLayer(w, layerId) ==
    IF layerId # 0 THEN GetLayer(w.layers, layerId) ELSE SelectedLayer(w)

\* a guard that tests only whether the layer exists
LayerMissing(w, p) == p = 0

\* if (!layer || layer.locked) return
LayerUnavailable(w, p) == p = 0 \/ w.layers[p].locked

\* frameIndex ?? this._currentFrame  (frameIndex <<>>: argument omitted)
FrameIndexOr(w, frameIndex) == IF frameIndex = <<>> THEN w.currentFrame ELSE frameIndex[1]

\* a Layer operation's result r on layer p, as the Document method hands it on
DocAfterLayer(w, p, r, ret, event) ==
    IF r.threw THEN DocRes(WithLayerRes(w, p, r), "threw", <<>>, TRUE)
    ELSE DocRes(WithLayerRes(w, p, r), ret, <<event>>, FALSE)

\* Document.insertKeyframe(layerId?, frameIndex?)
DocInsertKeyframe(w, layerId, frameIndex) ==
    IF LayerUnavailable(w, TargetLayer(w, layerId)) THEN DocRes(w, "null", <<>>, FALSE)
    ELSE DocAfterLayer(w, TargetLayer(w, layerId),
                       LayerInsertKeyframe(w.layers[TargetLayer(w, layerId)].frames,
                                           FrameIndexOr(w, frameIndex), w.nextId),
                       "frame", "keyframeInsert")

\* Document.insertBlankKeyframe(layerId?, frameIndex?)
DocInsertBlankKeyframe(w, layerId, frameIndex) ==
    IF LayerUnavailable(w, TargetLayer(w, layerId)) THEN DocRes(w, "null", <<>>, FALSE)
    ELSE DocAfterLayer(w, TargetLayer(w, layerId),
                       LayerInsertBlankKeyframe(w.layers[TargetLayer(w, layerId)].frames,
                                                FrameIndexOr(w, frameIndex), w.nextId),
                       "frame", "keyframeInsert")

\* Document.clearKeyframe(layerId?, frameIndex?)
DocClearKeyframe(w, layerId, frameIndex) ==
    IF LayerUnavailable(w, TargetLayer(w, layerId)) THEN DocRes(w, "undefined", <<>>, FALSE)
    ELSE DocAfterLayer(w, TargetLayer(w, layerId),
                       LayerClearKeyframe(w.layers[TargetLayer(w, layerId)].frames,
                                          FrameIndexOr(w, frameIndex), w.nextId),
                       "undefined", "keyframeClear")

\* Document.addShape(shape), from layer.addShapeAtFrame() on, with its outcome r
DocAddShapeAfter(w, p, r, shape) ==
    IF r.threw THEN DocRes(WithLayerRes(w, p, r), "threw", <<>>, TRUE)
    ELSE DocRes([WithLayerRes(w, p, r) EXCEPT !.selectedShapeIds = {shape.id}],
                "undefined", <<"shapeAdd">>, FALSE)

\* Document.addShape(shape)
DocAddShape(w, shape) ==
    IF LayerUnavailable(w, SelectedLayer(w)) THEN DocRes(w, "undefined", <<>>, FALSE)
    ELSE DocAddShapeAfter(w, SelectedLayer(w),
                          LayerAddShapeAtFrame(w.layers[SelectedLayer(w)].frames,
                                               w.currentFrame, shape, w.nextId),
                          shape)

\* for (const shapeId of this._selectedShapeIds) keyframe.removeShape(shapeId)
RECURSIVE RemoveShapeIds(_, _)
RemoveShapeIds(f, ids) ==
    IF ids = {} THEN f
    ELSE LET x == CHOOSE x \in ids : TRUE
         IN  RemoveShapeIds(FrameRemoveShape(f, x), ids \ {x})

\* Document.removeSelectedShapes(), once the keyframe at list position k is found
DocRemoveSelectedFrom(w, p, k) ==
    IF k = 0 THEN DocRes(w, "undefined", <<>>, FALSE)
    ELSE IF w.layers[p].frames[k].plain /\ w.selectedShapeIds # {}
    THEN DocRes(w, "threw", <<>>, TRUE)                         \* keyframe.removeShape()
    ELSE DocRes([w EXCEPT !.layers[p].frames[k] = RemoveShapeIds(@, w.selectedShapeIds),
                          !.selectedShapeIds = {}],
                "undefined", <<"shapesRemove">>, FALSE)

\* Document.removeSelectedShapes()
DocRemoveSelectedShapes(w) ==
    IF LayerUnavailable(w, SelectedLayer(w)) THEN DocRes(w, "undefined", <<>>, FALSE)
    ELSE DocRemoveSelectedFrom(w, SelectedLayer(w),
                               GetKeyframeAt(w.layers[SelectedLayer(w)].frames,
                                             w.currentFrame))

\* removeLayer(layerId) returns true on the path that spliced the layer out
DocRemoveLayerReturns(w, layerId) ==
    Len(DocRemoveLayer(w, layerId).layers) # Len(w.layers)

\* Document.toJSON(): layers.map(l => l.toJSON()) throws when a layer's toJSON() does
DocToJSONThrows(w) == \E i \in 1..Len(w.layers) : LayerToJSONThrows(w.layers[i])

\* Document.toJSON(): the layers as plain objects (the document's id, name, settings
\* and version are not changed by any operation modelled here)
DocToJSON(w) == [i \in 1..Len(w.layers) |-> LayerToJSON(w.layers[i])]

\* Document.fromJSON(doc.toJSON()): every layer is new Layer(data), the playhead and
\* the selections start afresh
DocFromJSON(w) ==
    [w EXCEPT !.layers = [i \in 1..Len(w.layers) |-> LayerFromData(LayerToJSON(w.layers[i]))],
              !.layerCount = @ + Len(w.layers),
              !.currentFrame = 1, !.selectedLayerId = 0, !.selectedShapeIds = {}]

\* a Document method returned (or threw) with outcome r
DocStep(r, arg, method) ==
    /\ SetWorld(r.w)
    /\ result' = method \o ":" \o r.ret
    /\ log' = <<<<arg, method, r.events>>>>
    /\ UNCHANGED <<undoStack, redoStack, maxHistory, isExecuting, pc, cur,
                   nCalls, nCmds, trace, snaps, moved, uiVars>>

\* the layerId arguments a caller passes: none (0), an id that names no layer (1 is
\* the document's own id), or the id of a layer
LayerIdArgs == {0, 1} \cup LayerIds(World)

\* the frameIndex arguments a caller passes: none, or an index
FrameIndexArgs == {<<>>} \cup {<<i>> : i \in 1..MaxFrame}

OpDocInsertKeyframe ==
    /\ nextId < MaxIdFrames
    /\ \E layerId \in LayerIdArgs, frameIndex \in FrameIndexArgs :
          DocStep(DocInsertKeyframe(World, layerId, frameIndex), layerId, "insertKeyframe")

OpDocInsertBlankKeyframe ==
    /\ nextId < MaxIdFrames
    /\ \E layerId \in LayerIdArgs, frameIndex \in FrameIndexArgs :
          DocStep(DocInsertBlankKeyframe(World, layerId, frameIndex), layerId,
                  "insertBlankKeyframe")

OpDocClearKeyframe ==
    \E layerId \in LayerIdArgs, frameIndex \in FrameIndexArgs :
        DocStep(DocClearKeyframe(World, layerId, frameIndex), layerId, "clearKeyframe")

\* document.addShape(new Shape()): the shape draws its id before the call
OpDocAddShape ==
    /\ nextId < MaxIdFrames
    /\ DocStep(DocAddShape([World EXCEPT !.nextId = nextId + 1], NewShape(nextId)),
               0, "addShape")

OpDocRemoveSelectedShapes ==
    DocStep(DocRemoveSelectedShapes(World), 0, "removeSelectedShapes")

OpDocAddLayer ==
    /\ nextId < MaxIdFrames /\ Len(layers) < MaxLayers
    /\ DocStep(DocRes(DocAddLayer(World), "layer", <<"layerAdd">>, FALSE), 0, "addLayer")

OpDocRemoveLayer ==
    \E layerId \in LayerIds(World) \cup {1} :
        DocStep(DocRes(DocRemoveLayer(World, layerId),
                       IF DocRemoveLayerReturns(World, layerId) THEN "true" ELSE "false",
                       IF DocRemoveLayerReturns(World, layerId)
                       THEN <<"layerRemove">> ELSE <<>>,
                       FALSE),
                layerId, "removeLayer")

OpDocSelectLayer ==
    \E layerId \in LayerIds(World) \cup {1} :
        DocStep(DocRes(DocSelectLayer(World, layerId), "undefined",
                       IF GetLayer(layers, layerId) > 0 THEN <<"layerSelect">> ELSE <<>>,
                       FALSE),
                layerId, "selectLayer")

\* layer.toggleLock() on a layer of the document
OpToggleLock ==
    \E p \in 1..Len(layers) :
        DocStep(DocRes([World EXCEPT !.layers[p].locked = ~@], "undefined", <<>>, FALSE),
                layers[p].id, "toggleLock")

\* document.currentFrame = frame
OpSetCurrentFrame ==
    \E frame \in 0..MaxFrame :
        DocStep(DocRes(SetCurrentFrame(World, frame), "undefined",
                       IF SetCurrentFrame(World, frame).currentFrame # currentFrame
                       THEN <<"frameChange">> ELSE <<>>,
                       FALSE),
                frame, "currentFrame")

\* the document is replaced by Document.fromJSON(document.toJSON())
OpDocFromJSON ==
    /\ \A p \in 1..Len(layers) : ~LayerToJSONThrows(layers[p])
    /\ DocStep(DocRes(DocFromJSON(World), "document", <<>>, FALSE), 0, "fromJSON")

NextDoc ==
    \/ OpDocInsertKeyframe
    \/ OpDocInsertBlankKeyframe
    \/ OpDocClearKeyframe
    \/ OpDocAddShape
    \/ OpDocRemoveSelectedShapes
    \/ OpDocAddLayer
    \/ OpDocRemoveLayer
    \/ OpDocSelectLayer
    \/ OpToggleLock
    \/ OpSetCurrentFrame
    \/ OpDocFromJSON

SpecDoc == Init /\ [][NextDoc]_vars

-----------------------------------------------------------------------------
(* Commands on layers that may be locked: the editor session's shape,       *)
(* keyframe and tween commands, with layer.toggleLock() called between two  *)
(* calls of the HistoryManager.                                             *)

SessionToggleLock ==
    /\ pc = "idle"
    /\ OpToggleLock

NextLocked ==
    \/ SessionToggleLock
    \/ ExecuteAddShape
    \/ ExecuteRemoveShapes
    \/ ExecuteInsertKeyframe
    \/ ExecuteClearKeyframe
    \/ ExecuteSetTween
    \/ Undo
    \/ Redo
    \/ MovePlayhead
    \/ \E lthrow \in BOOLEAN : ExecuteBody(lthrow)
    \/ \E lthrow \in BOOLEAN : UndoBody(lthrow)
    \/ \E lthrow \in BOOLEAN : RedoBody(lthrow)

SpecLocked == Init /\ [][NextLocked]_vars

-----------------------------------------------------------------------------
(* The playhead: the currentFrame setter with its frameChange event, the    *)
(* navigation methods, and the Timeline's playback timer.  The timeline is  *)
(* made longer than its minimum by a keyframe inserted at a playhead beyond *)
(* it.  The log holds the value assigned (0 when the call has no argument),  *)
(* the method and the events emitted, in order.                             *)

\* set currentFrame(frame): frameChange is emitted when the stored value changed
DocSetCurrentFrame(w, frame) ==
    DocRes(SetCurrentFrame(w, frame), "undefined",
           IF SetCurrentFrame(w, frame).currentFrame # w.currentFrame
           THEN <<"frameChange">> ELSE <<>>,
           FALSE)

\* nextFrame(): this.currentFrame++
DocNextFrame(w) == DocSetCurrentFrame(w, w.currentFrame + 1)

\* prevFrame(): this.currentFrame--
DocPrevFrame(w) == DocSetCurrentFrame(w, w.currentFrame - 1)

\* firstFrame()
DocFirstFrame(w) == DocSetCurrentFrame(w, 1)

\* lastFrame()
DocLastFrame(w) == DocSetCurrentFrame(w, TotalFrames(w))

\* a timer callback that loops back to the last frame
PlayTickToLastFrame(r) ==
    IF r.w.currentFrame >= TotalFrames(r.w)
    THEN DocRes(DocLastFrame(r.w).w, "undefined",
                r.events \o DocLastFrame(r.w).events \o <<"render">>, FALSE)
    ELSE DocRes(r.w, "undefined", r.events \o <<"render">>, FALSE)

\* the timer callback of startPlay, after nextFrame() returned with outcome r
PlayTickAfter(r) ==
    IF r.w.currentFrame >= TotalFrames(r.w)
    THEN DocRes(DocFirstFrame(r.w).w, "undefined",
                r.events \o DocFirstFrame(r.w).events \o <<"render">>, FALSE)
    ELSE DocRes(r.w, "undefined", r.events \o <<"render">>, FALSE)

\* the timer callback of startPlay: one tick of the playback
PlayTick(w) == PlayTickAfter(DocNextFrame(w))

\* the values assigned to currentFrame: around 1 and around the end of the timeline
PlayheadArgs == (-1..MaxFrame) \cup ((MinTotalFrames - 1)..(MinTotalFrames + MaxFrame))

\* document.currentFrame = frame
OpAssignCurrentFrame ==
    \E frame \in PlayheadArgs :
        DocStep(DocSetCurrentFrame(World, frame), frame, "currentFrame")

OpNextFrame ==
    /\ currentFrame < MinTotalFrames + MaxFrame
    /\ DocStep(DocNextFrame(World), 0, "nextFrame")

OpPrevFrame == DocStep(DocPrevFrame(World), 0, "prevFrame")

OpFirstFrame == DocStep(DocFirstFrame(World), 0, "firstFrame")

OpLastFrame == DocStep(DocLastFrame(World), 0, "lastFrame")

\* document.insertKeyframe() at a playhead beyond the minimum length of the timeline
OpInsertKeyframeAtPlayhead ==
    /\ nextId < MaxIdFrames
    /\ currentFrame > MinTotalFrames
    /\ DocStep(DocInsertKeyframe(World, 0, <<>>), 0, "insertKeyframe")

\* togglePlay(): startPlay() sets the timer, stopPlay() clears it
OpTogglePlay ==
    /\ isPlaying' = ~isPlaying
    /\ playInterval' = ~isPlaying
    /\ result' = IF isPlaying THEN "stopPlay:undefined" ELSE "startPlay:undefined"
    /\ log' = <<<<0, "togglePlay", <<>>>>>>
    /\ UNCHANGED <<docVars, undoStack, redoStack, maxHistory, isExecuting, pc, cur,
                   nCalls, nCmds, trace, snaps, moved, listeners>>

\* the timer fires
OpTick ==
    /\ playInterval
    /\ DocStep(PlayTick(World), 0, "tick")

NextPlayhead ==
    \/ OpAssignCurrentFrame
    \/ OpNextFrame
    \/ OpPrevFrame
    \/ OpFirstFrame
    \/ OpLastFrame
    \/ OpInsertKeyframeAtPlayhead
    \/ OpTogglePlay
    \/ OpTick

SpecPlayhead == Init /\ [][NextPlayhead]_vars

-----------------------------------------------------------------------------
(* Playback on its own: while the timer is stopped the playhead is put       *)
(* anywhere, also beyond the end of the timeline, and the timeline is made   *)
(* longer; while it runs there are no edits, only ticks, until togglePlay()  *)
(* stops it.  setInterval keeps calling the callback as long as the interval *)
(* is set: the tick is weakly fair.                                          *)

PlaySetCurrentFrame ==
    /\ ~isPlaying
    /\ OpAssignCurrentFrame

PlayInsertKeyframe ==
    /\ ~isPlaying
    /\ OpInsertKeyframeAtPlayhead

NextPlay ==
    \/ PlaySetCurrentFrame
    \/ PlayInsertKeyframe
    \/ OpTogglePlay
    \/ OpTick

SpecPlay == Init /\ [][NextPlay]_vars /\ WF_vars(OpTick)

-----------------------------------------------------------------------------
(* The stage: layers added, reordered, hidden and shown, shapes drawn on    *)
(* the selected layer, and the list of visible shapes queried with the      *)
(* playhead on frame 1.  The log of a query holds the list that             *)
(* getVisibleShapes() returned.                                             *)

\* moveLayerUp(layerId)
DocMoveLayerUp(w, layerId) ==
    LET index == GetLayer(w.layers, layerId)
    IN  IF index > 1
        THEN [w EXCEPT !.layers = InsertAt(RemoveAt(w.layers, index), index - 1,
                                           w.layers[index])]
        ELSE w

\* moveLayerDown(layerId)
DocMoveLayerDown(w, layerId) ==
    LET index == GetLayer(w.layers, layerId)
    IN  IF index >= 1 /\ index < Len(w.layers)
        THEN [w EXCEPT !.layers = InsertAt(RemoveAt(w.layers, index), index + 1,
                                           w.layers[index])]
        ELSE w

\* the entries getVisibleShapes() pushes for the layer at position i
VisibleEntries(w, i) ==
    IF ~w.layers[i].visible THEN <<>>
    ELSE [k \in 1..Len(GetShapesAtFrame(w.layers[i].frames, w.currentFrame)) |->
             [shape |-> GetShapesAtFrame(w.layers[i].frames, w.currentFrame)[k],
              layerId |-> w.layers[i].id]]

\* a loop that runs from the first layer to the last
RECURSIVE VisibleTopDown(_, _)
VisibleTopDown(w, i) ==
    IF i > Len(w.layers) THEN <<>> ELSE VisibleEntries(w, i) \o VisibleTopDown(w, i + 1)

\* getVisibleShapes with the loop from the first layer to the last
GetVisibleShapesTopDown(w) == VisibleTopDown(w, 1)

\* for (let i = this.layers.length - 1; i >= 0; i--): the loop from position i down
RECURSIVE VisibleFrom(_, _)
VisibleFrom(w, i) ==
    IF i < 1 THEN <<>> ELSE VisibleEntries(w, i) \o VisibleFrom(w, i - 1)

\* getVisibleShapes()
GetVisibleShapes(w) == VisibleFrom(w, Len(w.layers))

OpStageAddLayer ==
    /\ nextId + 1 < MaxId /\ Len(layers) <= MaxLayers
    /\ DocStep(DocRes(DocAddLayer(World), "layer", <<"layerAdd">>, FALSE), 0, "addLayer")

\* document.addShape(new Shape()) on a layer that holds fewer than MaxK shapes
OpStageAddShape ==
    /\ nextId < MaxId
    /\ SelectedLayer(World) > 0
    /\ Len(GetShapesAtFrame(layers[SelectedLayer(World)].frames, currentFrame)) < MaxK
    /\ DocStep(DocAddShape([World EXCEPT !.nextId = nextId + 1], NewShape(nextId)),
               0, "addShape")

OpMoveLayerUp ==
    \E p \in 1..Len(layers) :
        DocStep(DocRes(DocMoveLayerUp(World, layers[p].id),
                       IF p > 1 THEN "true" ELSE "false",
                       IF p > 1 THEN <<"layerMove">> ELSE <<>>, FALSE),
                layers[p].id, "moveLayerUp")

OpMoveLayerDown ==
    \E p \in 1..Len(layers) :
        DocStep(DocRes(DocMoveLayerDown(World, layers[p].id),
                       IF p < Len(layers) THEN "true" ELSE "false",
                       IF p < Len(layers) THEN <<"layerMove">> ELSE <<>>, FALSE),
                layers[p].id, "moveLayerDown")

\* layer.toggleVisibility() on a layer of the document
OpToggleVisibility ==
    \E p \in 1..Len(layers) :
        DocStep(DocRes([World EXCEPT !.layers[p].visible = ~@], "undefined", <<>>, FALSE),
                layers[p].id, "toggleVisibility")

\* document.getVisibleShapes(): the list returned is kept in the log
OpGetVisibleShapes ==
    DocStep(DocRes(World, "list", GetVisibleShapes(World), FALSE), 0, "getVisibleShapes")

NextStage ==
    \/ OpStageAddLayer
    \/ OpStageAddShape
    \/ OpDocSelectLayer
    \/ OpMoveLayerUp
    \/ OpMoveLayerDown
    \/ OpToggleVisibility
    \/ OpGetVisibleShapes

SpecStage == Init /\ [][NextStage]_vars

-----------------------------------------------------------------------------
(* The Document's events: on, off and emit on the listener table.  A        *)
(* callback is known by its name, which tells what it does when invoked:    *)
(*   "a", "b"   return                                                      *)
(*   "thrower"  throws                                                      *)
(*   "once"     unsubscribes itself from the event: off(event, once)        *)
(*   "adder"    subscribes "a" to the event: on(event, a)                   *)
(* The log of an emit holds the callbacks it invoked, in order.             *)

Callbacks == {"a", "b", "thrower", "once", "adder"}

\* on(event, callback)
ListenersOn(ls, event, callback) == [ls EXCEPT ![event] = Append(@, callback)]

\* off(event, callback): indexOf and splice remove the first occurrence
ListenersOff(ls, event, callback) ==
    LET S == {i \in 1..Len(ls[event]) : ls[event][i] = callback}
    IN  IF S = {} THEN ls ELSE [ls EXCEPT ![event] = RemoveAt(@, Min(S))]

\* callback(data): what the call does to the listener table
CallbackRuns(ls, event, callback) ==
    IF callback = "once" THEN ListenersOff(ls, event, callback)
    ELSE IF callback = "adder" THEN ListenersOn(ls, event, "a")
    ELSE ls

\* for (const callback of callbacks) callback(data): the array iterator is at
\* position i of the array as it is now
RECURSIVE EmitFrom(_, _, _, _)
EmitFrom(ls, event, i, invoked) ==
    IF i > Len(ls[event]) THEN [listeners |-> ls, invoked |-> invoked, threw |-> FALSE]
    ELSE IF ls[event][i] = "thrower"
    THEN [listeners |-> ls, invoked |-> Append(invoked, ls[event][i]), threw |-> TRUE]
    ELSE EmitFrom(CallbackRuns(ls, event, ls[event][i]), event, i + 1,
                  Append(invoked, ls[event][i]))

\* emit(event, data)
Emit(ls, event) == EmitFrom(ls, event, 1, <<>>)

\* the number of subscriptions in the table
Subscriptions(ls) ==
    LET RECURSIVE Sum(_)
        Sum(E) == IF E = {} THEN 0
                  ELSE LET e == CHOOSE e \in E : TRUE IN Len(ls[e]) + Sum(E \ {e})
    IN  Sum(DOMAIN ls)

\* a call on the listener table returned (or threw)
EventStep(ls, event, method, ret, called) ==
    /\ listeners' = ls
    /\ result' = method \o ":" \o ret
    /\ log' = <<<<event, method, called>>>>
    /\ UNCHANGED <<docVars, undoStack, redoStack, maxHistory, isExecuting, pc, cur,
                   nCalls, nCmds, trace, snaps, moved, isPlaying, playInterval>>

OpOn ==
    /\ Subscriptions(listeners) < MaxSubs
    /\ \E event \in EventNames, callback \in Callbacks :
          EventStep(ListenersOn(listeners, event, callback), event, "on", "undefined",
                    <<callback>>)

OpOff ==
    \E event \in EventNames, callback \in Callbacks :
        EventStep(ListenersOff(listeners, event, callback), event, "off", "undefined",
                  <<callback>>)

OpEmit ==
    \E event \in EventNames :
        /\ Subscriptions(Emit(listeners, event).listeners) <= MaxSubs
        /\ EventStep(Emit(listeners, event).listeners, event, "emit",
                  IF Emit(listeners, event).threw THEN "threw" ELSE "undefined",
                  Emit(listeners, event).invoked)

NextEvents ==
    \/ OpOn
    \/ OpOff
    \/ OpEmit

SpecEvents == Init /\ [][NextEvents]_vars

-----------------------------------------------------------------------------
(* The tween engine (Tween.ts).  A progress t is held as the integer        *)
(* t*ProgressDen, an eased progress and every interpolated value v as the   *)
(* integer v*EasedDen.  The log of a call holds its arguments and the value *)
(* it returned.                                                             *)

\* the denominator of an eased progress: the easing functions are of degree two
EasedDen == ProgressDen * ProgressDen

\* Easing.linear, easeIn, easeOut, easeInOut at t = n/ProgressDen
EasingLinear(n) == n * ProgressDen

EasingEaseIn(n) == n * n

EasingEaseOut(n) == n * (2 * ProgressDen - n)

EasingEaseInOut(n) ==
    IF 2 * n < ProgressDen THEN 2 * n * n
    ELSE (4 * ProgressDen - 2 * n) * n - EasedDen

\* getEasingFunction(easing)(t): no easing, and a type without a case, are linear
EasedProgress(easing, n) ==
    IF easing = "undefined" THEN EasingLinear(n)
    ELSE IF easing = "linear" THEN EasingLinear(n)
    ELSE IF easing = "easeIn" THEN EasingEaseIn(n)
    ELSE IF easing = "easeOut" THEN EasingEaseOut(n)
    ELSE IF easing = "easeInOut" THEN EasingEaseInOut(n)
    ELSE EasingLinear(n)

\* lerp(a, b, t) at t = n/den, times den
Lerp(a, b, n, den) == a * den + (b - a) * n

\* while (diff > 180) diff -= 360
RECURSIVE WhileAbove(_)
WhileAbove(diff) == IF diff > HalfTurn THEN WhileAbove(diff - FullTurn) ELSE diff

\* while (diff < -180) diff += 360
RECURSIVE WhileBelow(_)
WhileBelow(diff) == IF diff < -HalfTurn THEN WhileBelow(diff + FullTurn) ELSE diff

\* lerpAngle: the difference after the two loops
AngleDiff(a, b) == WhileBelow(WhileAbove(b - a))

\* lerpAngle(a, b, t) at t = n/den, times den
LerpAngle(a, b, n, den) == a * den + AngleDiff(a, b) * n

\* a transform whose values are held times EasedDen
Scaled(transform) == [f \in DOMAIN transform |-> transform[f] * EasedDen]

\* lerpTransform(start, end, t) at t = e/EasedDen
LerpTransform(start, end, e) ==
    [x |-> Lerp(start.x, end.x, e, EasedDen),
     y |-> Lerp(start.y, end.y, e, EasedDen),
     scaleX |-> Lerp(start.scaleX, end.scaleX, e, EasedDen),
     scaleY |-> Lerp(start.scaleY, end.scaleY, e, EasedDen),
     rotation |-> LerpAngle(start.rotation, end.rotation, e, EasedDen),
     skewX |-> Lerp(start.skewX, end.skewX, e, EasedDen),
     skewY |-> Lerp(start.skewY, end.skewY, e, EasedDen),
     alpha |-> Lerp(start.alpha, end.alpha, e, EasedDen)]

\* an end-only shape that is shown with the alpha of its end transform
FadeInOpaque(transform, e) == Scaled(transform)

\* const tweenedTransform = { ...endShape.transform }; tweenedTransform.alpha *= e
FadeIn(transform, e) == [Scaled(transform) EXCEPT !.alpha = transform.alpha * e]

\* the first loop of calculateTweenedShapes: one entry per start shape
TweenStartShapes(startShapes, endShapes, e) ==
    [i \in 1..Len(startShapes) |->
        IF ShapePos(endShapes, startShapes[i].id) > 0
        THEN [originalShape |-> startShapes[i],
              tweenedTransform |->
                  LerpTransform(startShapes[i].transform,
                                endShapes[ShapePos(endShapes, startShapes[i].id)].transform,
                                e),
              progress |-> e]
        ELSE [originalShape |-> startShapes[i],
              tweenedTransform |-> Scaled(startShapes[i].transform),
              progress |-> 0]]

\* the second loop of calculateTweenedShapes, from end shape j on
RECURSIVE TweenEndShapes(_, _, _, _)
TweenEndShapes(startShapes, endShapes, e, j) ==
    IF j > Len(endShapes) THEN <<>>
    ELSE IF ShapePos(startShapes, endShapes[j].id) = 0
    THEN <<[originalShape |-> endShapes[j],
            tweenedTransform |-> FadeIn(endShapes[j].transform, e),
            progress |-> e]>> \o TweenEndShapes(startShapes, endShapes, e, j + 1)
    ELSE TweenEndShapes(startShapes, endShapes, e, j + 1)

\* calculateTweenedShapes(startShapes, endShapes, progress, easing) at progress
\* n/ProgressDen: the list returned, and the two arrays as they are after the call
\* (the only assignment of the function is to the copy made for an end-only shape)
CalculateTweenedShapes(startShapes, endShapes, n, easing) ==
    [results |-> TweenStartShapes(startShapes, endShapes, EasedProgress(easing, n))
                 \o TweenEndShapes(startShapes, endShapes, EasedProgress(easing, n), 1),
     startShapes |-> startShapes,
     endShapes |-> endShapes]

\* a call of the tween engine returned
TweenStep(args, method, value) ==
    /\ result' = method \o ":returned"
    /\ log' = <<<<args, method, value>>>>
    /\ UNCHANGED <<docVars, undoStack, redoStack, maxHistory, isExecuting, pc, cur,
                   nCalls, nCmds, trace, snaps, moved, uiVars>>

Angles == {AngleStep * k : k \in (-MaxAngleSteps)..MaxAngleSteps}

\* lerpAngle(a, b, n/ProgressDen); the function keeps no state, so that one call
\* with each argument is every call
OpLerpAngle ==
    /\ log = <<>>
    /\ \E a \in Angles, b \in Angles, n \in 0..ProgressDen :
          TweenStep(<<a, b, n>>, "lerpAngle", LerpAngle(a, b, n, ProgressDen))

SpecAngle == Init /\ [][OpLerpAngle]_vars

\* the transforms of the shapes handed to the tween engine
TweenTransforms ==
    {[x |-> 100, y |-> 50, scaleX |-> 2, scaleY |-> 3, rotation |-> 350,
      skewX |-> 10, skewY |-> 20, alpha |-> 0],
     [x |-> -40, y |-> 8, scaleX |-> 1, scaleY |-> 2, rotation |-> 10,
      skewX |-> -5, skewY |-> 0, alpha |-> 1]}

\* the shapes of a keyframe: at most MaxTweenShapes shapes with distinct ids
TweenShapeLists ==
    UNION {{s \in [1..len -> [id : 1..MaxTweenShapes, copies : {0},
                              transform : TweenTransforms]] :
               \A i, j \in 1..len : i # j => s[i].id # s[j].id} :
           len \in 0..MaxTweenShapes}

\* the easing argument: left out, or an EasingFunction of one of the five types
EasingArgs == {"undefined", "linear", "easeIn", "easeOut", "easeInOut", "custom"}

\* calculateTweenedShapes(startShapes, endShapes, n/ProgressDen, easing)
OpCalculateTweenedShapes ==
    /\ log = <<>>
    /\ \E startShapes \in TweenShapeLists, endShapes \in TweenShapeLists,
          n \in 0..ProgressDen, easing \in EasingArgs :
          TweenStep([startShapes |-> startShapes, endShapes |-> endShapes,
                     progress |-> n, easing |-> easing],
                    "calculateTweenedShapes",
                    CalculateTweenedShapes(startShapes, endShapes, n, easing))

SpecTween == Init /\ [][OpCalculateTweenedShapes]_vars

-----------------------------------------------------------------------------
(* A scene animated end to end: layers added, shapes drawn on frame 1, a    *)
(* keyframe inserted at EndFrame, shapes moved, a motion tween set on frame *)
(* 1, and the tween engine queried with the shapes of frame 1 and of        *)
(* EndFrame.                                                                *)

\* shape.transform.x = endX
ShapeMoveX(shape, endX) == [shape EXCEPT !.transform.x = endX]

OpSceneAddLayer ==
    /\ nextId + 1 < MaxId /\ Len(layers) < MaxLayers
    /\ DocStep(DocRes(DocAddLayer(World), "layer", <<"layerAdd">>, FALSE), 0, "addLayer")

\* document.addShape(rectangle) with the playhead on frame 1
OpSceneAddShape ==
    /\ nextId < MaxId
    /\ SelectedLayer(World) > 0
    /\ Len(GetShapesAtFrame(layers[SelectedLayer(World)].frames, currentFrame)) < MaxK
    /\ DocStep(DocAddShape([World EXCEPT !.nextId = nextId + 1], NewShape(nextId)),
               0, "addShape")

\* document.insertKeyframe(layer.id, EndFrame)
OpSceneInsertKeyframe ==
    /\ nextId < MaxId
    /\ \E layerId \in LayerIds(World) :
          DocStep(DocInsertKeyframe(World, layerId, <<EndFrame>>), layerId, "insertKeyframe")

\* a shape of a keyframe is moved to x = MoveX, or back to 0
OpMoveShape ==
    \E p \in 1..Len(layers), endX \in {0, MoveX} :
        \E k \in 1..Len(layers[p].frames) :
            \E i \in 1..Len(layers[p].frames[k].shapes) :
                DocStep(DocRes([World EXCEPT !.layers[p].frames[k].shapes[i] =
                                                 ShapeMoveX(@, endX)],
                               "undefined", <<>>, FALSE),
                        layers[p].frames[k].shapes[i].id, "moveShape")

\* frame.setMotionTween(easing) on the keyframe at frame 1 of a layer
OpSceneSetMotionTween ==
    \E p \in 1..Len(layers), easing \in {"undefined", "linear", "easeIn"} :
        /\ GetFrame(layers[p].frames, 1) > 0
        /\ DocStep(DocRes([World EXCEPT !.layers[p].frames[GetFrame(layers[p].frames, 1)] =
                                            FrameSetMotionTween(@, easing)],
                          "undefined", <<>>, FALSE),
                   layers[p].id, "setMotionTween")

\* calculateTweenedShapes(layer.getShapesAtFrame(1), layer.getShapesAtFrame(EndFrame),
\* n/ProgressDen, frame.easing) for a layer whose frame 1 carries a motion tween
OpQueryTween ==
    \E p \in 1..Len(layers), n \in 0..ProgressDen :
        /\ GetFrame(layers[p].frames, 1) > 0
        /\ layers[p].frames[GetFrame(layers[p].frames, 1)].tweenType = "motion"
        /\ TweenStep([startShapes |-> GetShapesAtFrame(layers[p].frames, 1),
                      endShapes |-> GetShapesAtFrame(layers[p].frames, EndFrame),
                      progress |-> n,
                      easing |-> layers[p].frames[GetFrame(layers[p].frames, 1)].easing],
                     "calculateTweenedShapes",
                     CalculateTweenedShapes(
                         GetShapesAtFrame(layers[p].frames, 1),
                         GetShapesAtFrame(layers[p].frames, EndFrame), n,
                         layers[p].frames[GetFrame(layers[p].frames, 1)].easing))

NextScene ==
    \/ OpSceneAddLayer
    \/ OpSceneAddShape
    \/ OpSceneInsertKeyframe
    \/ OpMoveShape
    \/ OpSceneSetMotionTween
    \/ OpQueryTween

SpecScene == Init /\ [][NextScene]_vars

-----------------------------------------------------------------------------
(* MoveShapesCommand through the HistoryManager: shapes drawn on the layer, *)
(* a blank keyframe inserted at frame MaxFrame, the layer hidden and shown, *)
(* the playhead moved, and a visible shape dragged by MoveX in x and y.     *)
(* TransformShapesCommand finds its shapes by the same findShape().         *)

MoveShapesCommand(cid, movements) == [type |-> "moveShapes", cid |-> cid, movements |-> movements]

ShapeMoveY(shape, endY) == [shape EXCEPT !.transform.y = endY]

\* findShape(shapeId): the first entry of getVisibleShapes() with this id, as the
\* place <<layer, frame, shape>> of the Shape object it refers to; <<>> for undefined
FindShape(w, shapeId) ==
    LET list == GetVisibleShapes(w)
        S == {i \in 1..Len(list) : list[i].shape.id = shapeId}
    IN  IF S = {} THEN <<>>
        ELSE LET p == Max({q \in 1..Len(w.layers) :
                             /\ w.layers[q].id = list[Min(S)].layerId
                             /\ w.layers[q].visible
                             /\ ShapePos(GetShapesAtFrame(w.layers[q].frames, w.currentFrame),
                                         shapeId) > 0})
                 k == GetKeyframeAt(w.layers[p].frames, w.currentFrame)
             IN  <<p, k, ShapePos(w.layers[p].frames[k].shapes, shapeId)>>

\* const shape = this.findShape(shapeId); if (shape) { shape.transform.x = x; ... y = y }
MoveShapeTo(w, shapeId, x, y) ==
    LET at == FindShape(w, shapeId)
    IN  IF at = <<>> THEN w
        ELSE [w EXCEPT !.layers[at[1]].frames[at[2]].shapes[at[3]] =
                           ShapeMoveY(ShapeMoveX(@, x), y)]

\* execute(): the loop over this.movements from position i on
RECURSIVE MoveShapesExecuteFrom(_, _, _)
MoveShapesExecuteFrom(c, w, i) ==
    IF i > Len(c.movements) THEN CmdRes(w, c, FALSE)
    ELSE MoveShapesExecuteFrom(c, MoveShapeTo(w, c.movements[i].shapeId,
                                              c.movements[i].endX, c.movements[i].endY),
                               i + 1)

MoveShapesExecute(c, w) == MoveShapesExecuteFrom(c, w, 1)

\* undo(): the loop over this.movements from position i on
RECURSIVE MoveShapesUndoFrom(_, _, _)
MoveShapesUndoFrom(c, w, i) ==
    IF i > Len(c.movements) THEN CmdRes(w, c, FALSE)
    ELSE MoveShapesUndoFrom(c, MoveShapeTo(w, c.movements[i].shapeId,
                                           c.movements[i].startX, c.movements[i].startY),
                            i + 1)

MoveShapesUndo(c, w) == MoveShapesUndoFrom(c, w, 1)

\* the movement a drag of the visible shape s by MoveX builds
Movement(w, s) ==
    LET at == FindShape(w, s)
        t == w.layers[at[1]].frames[at[2]].shapes[at[3]].transform
    IN  [shapeId |-> s, startX |-> t.x, startY |-> t.y,
         endX |-> t.x + MoveX, endY |-> t.y + MoveX]

MoveAddShape ==
    /\ pc = "idle" /\ nextId < MaxIdFrames
    /\ OpSceneAddShape

MoveInsertBlankKeyframe ==
    /\ pc = "idle" /\ nextId < MaxId
    /\ DocStep(DocInsertBlankKeyframe(World, 0, <<MaxFrame>>), 0, "insertBlankKeyframe")

MoveToggleVisibility ==
    /\ pc = "idle"
    /\ OpToggleVisibility

ExecuteMoveShapes ==
    /\ pc = "idle" /\ nCalls < MaxCalls /\ nCmds < MaxCmds
    /\ \E s \in VisibleShapeIds(World) :
          HistoryExecute(MoveShapesCommand(nCmds + 1, <<Movement(World, s)>>), 0)

MoveExecuteBody(lthrow) ==
    /\ pc = "execute"
    /\ ExecuteTry(NoCalls(MoveShapesExecute(cur[1], World)), lthrow)
    /\ pc' = "idle"
    /\ cur' = <<>>
    /\ moved' = FALSE
    /\ UNCHANGED <<maxHistory, nCalls, nCmds, uiVars>>

MoveUndoBody(lthrow) ==
    /\ pc = "undo"
    /\ UndoTry(NoCalls(MoveShapesUndo(cur[1], World)), lthrow)
    /\ pc' = "idle"
    /\ cur' = <<>>
    /\ UNCHANGED <<undoStack, maxHistory, nCalls, nCmds, snaps, moved, uiVars>>

MoveRedoBody(lthrow) ==
    /\ pc = "redo"
    /\ RedoTry(NoCalls(MoveShapesExecute(cur[1], World)), lthrow)
    /\ pc' = "idle"
    /\ cur' = <<>>
    /\ UNCHANGED <<redoStack, maxHistory, nCalls, nCmds, snaps, moved, uiVars>>

NextMove ==
    \/ MoveAddShape
    \/ MoveInsertBlankKeyframe
    \/ MoveToggleVisibility
    \/ MovePlayhead
    \/ ExecuteMoveShapes
    \/ Undo
    \/ Redo
    \/ \E lthrow \in BOOLEAN : MoveExecuteBody(lthrow)
    \/ \E lthrow \in BOOLEAN : MoveUndoBody(lthrow)
    \/ \E lthrow \in BOOLEAN : MoveRedoBody(lthrow)

SpecMove == Init /\ [][NextMove]_vars

-----------------------------------------------------------------------------
(* Properties *)

\* letters from..to of the trace are all the given letter
AllAre(from, to, letter) == \A i \in from..to : trace[i] = letter

\* the calls so far were n executes, then n undos, then n redos, none of which threw
UndoAllRedoAll ==
    \E n \in 1..Len(trace) :
        /\ Len(trace) = 3 * n
        /\ AllAre(1, n, "e") /\ AllAre(n + 1, 2 * n, "u") /\ AllAre(2 * n + 1, 3 * n, "r")

\* C1: after N commands executed through the HistoryManager, N undo() calls and then
\* N redo() calls (the playhead untouched meanwhile), the layer stack with its frames,
\* shapes, ids and tween settings is deep-equal to what it was right after the N
\* executions.
C1_UndoAllRedoAllReproduces ==
    (pc = "idle" /\ ~moved /\ UndoAllRedoAll) => PubLayers(layers) = Last(snaps)

\* C2: once execute(cmd) has been called, no redo entry is pending: the redo stack is
\* empty and no redo() is accepted until an undo() has completed.
C2_ExecuteEmptiesRedoStack ==
    (trace # <<>> /\ Last(trace) \in {"e", "x"}) => (redoStack = <<>> /\ pc # "redo")

\* C3: with the maximum history set to K, after K + Surplus executed commands the undo
\* stack holds exactly the K latest commands; the undo() calls that follow succeed, at
\* most K of them, and after K of them the undo stack is empty (a further undo()
\* returns false) and the layer stack is the one left by the first Surplus commands.
C3_HistoryBound ==
    LET K == maxHistory
        n == maxHistory + Surplus
        undos == Len(trace) - n
    IN  (maxHistory # DefaultMaxHistory /\ pc = "idle" /\ Len(snaps) = n + 1) =>
            /\ AllAre(1, n, "e")
            /\ AllAre(n + 1, Len(trace), "u")
            /\ undos <= K
            /\ Len(undoStack) = K - undos
            /\ \A i \in 1..Len(undoStack) : undoStack[i].cid = Surplus + i
            /\ (undos = K => PubLayers(layers) = snaps[Surplus + 1])

\* the answers of a call that the guard rejected or that found its stack empty
Rejections == {"execute:ignored", "undo:false:busy", "undo:false:empty",
               "redo:false:busy", "redo:false:empty"}

\* C4: a call of execute / undo / redo made while a command's execute() or undo() is
\* running runs no command, leaves the document and both stacks unchanged, leaves the
\* running call as it is, and answers as a rejected call (false for undo / redo).
C4_NestedCallsRejected ==
    [][(pc # "idle" /\ pc' # "idle") =>
          /\ UNCHANGED <<docVars, undoStack, redoStack, pc, cur, isExecuting, log>>
          /\ result' \in Rejections]_vars

\* a nested undo() was rejected by the guard while the undo stack held a command
C4_Witness == pc # "idle" /\ result = "undo:false:busy" /\ Len(undoStack) > 0

\* the ids of the commands on a stack, bottom to top
Cids(stack) == [i \in 1..Len(stack) |-> stack[i].cid]

Increasing(s) == \A i \in 1..(Len(s) - 1) : s[i] < s[i + 1]

Decreasing(s) == \A i \in 1..(Len(s) - 1) : s[i] > s[i + 1]

\* C5: undo() on an empty undo stack returns false and changes nothing; otherwise it
\* pops the latest executed command, runs its undo() and pushes it on the redo stack;
\* redo() pops the latest undone command, runs its execute() and pushes it on the
\* undo stack; so the undo stack is in execution order and the redo stack in reverse.
C5_UndoRedoMoveOneCommand ==
    [][/\ (pc = "idle" /\ pc' = "idle" /\ result' # result
               /\ result' \in {"undo:false:empty", "redo:false:empty"}) =>
             UNCHANGED <<docVars, undoStack, redoStack>>
       /\ (pc = "idle" /\ pc' = "undo") =>
             (cur' = <<Last(undoStack)>> /\ undoStack' = Front(undoStack)
                /\ UNCHANGED redoStack)
       /\ (pc = "undo" /\ pc' = "idle") =>
             /\ layers' = CmdUndo(cur[1], World).w.layers
             /\ Len(redoStack') = Len(redoStack) + 1
             /\ Front(redoStack') = redoStack
             /\ Last(redoStack').cid = cur[1].cid
             /\ UNCHANGED undoStack
       /\ (pc = "idle" /\ pc' = "redo") =>
             (cur' = <<Last(redoStack)>> /\ redoStack' = Front(redoStack)
                /\ UNCHANGED undoStack)
       /\ (pc = "redo" /\ pc' = "idle") =>
             /\ layers' = CmdExecute(cur[1], World).w.layers
             /\ Len(undoStack') = Len(undoStack) + 1
             /\ Front(undoStack') = undoStack
             /\ Last(undoStack').cid = cur[1].cid
             /\ UNCHANGED redoStack
       /\ Increasing(Cids(undoStack')) /\ Decreasing(Cids(redoStack'))]_vars

\* C6: between calls the HistoryManager is idle: whenever no call is running,
\* isExecuting is false and the latest call was not turned away by the guard, also
\* after a command or a listener threw.
C6_IdleBetweenCalls ==
    pc = "idle" => (~isExecuting /\ result \notin {"execute:ignored", "undo:false:busy",
                                                     "redo:false:busy"})

\* a call ran a command to its end after an earlier call's command had thrown
C6_Witness ==
    /\ pc = "idle" /\ ~isExecuting
    /\ \E i \in 1..(Len(trace) - 1) : trace[i] \in {"x", "v", "s"}
    /\ Last(trace) \in {"e", "u", "r"}

\* the calls so far were n executes and then k rounds of undo, redo; none threw
RedoCycles ==
    \E n \in 1..Len(trace), k \in 1..Len(trace) :
        /\ Len(trace) = n + 2 * k
        /\ AllAre(1, n, "e")
        /\ \A j \in 1..k : trace[n + 2 * j - 1] = "u" /\ trace[n + 2 * j] = "r"

\* C7: every re-execution of a command after its undo leaves the layer stack, ids
\* included, as its first execution left it, for any number of undo / redo rounds of
\* the latest command; the layer and shape ids it created are the ones it finds again.
C7_ReexecutionReproduces ==
    (pc = "idle" /\ ~moved /\ RedoCycles) =>
        /\ PubLayers(layers) = Last(snaps)
        /\ Last(undoStack).type = "addLayer" =>
              GetLayer(layers, Last(undoStack).layerId) > 0

\* C8: execute() and then undo() of a ClearKeyframeCommand that cleared a keyframe
\* leaves, at that index, a frame equal in every field (id, index, isKeyframe, isEmpty,
\* shapes, tweenType, easing, duration) to the one execute() found.
C8_ClearKeyframeUndoExact ==
    [][(/\ pc = "undo" /\ pc' = "idle"
        /\ cur[1].type = "clearKeyframe" /\ Len(cur[1].frameData) = 1
        /\ trace # <<>> /\ Last(trace) = "e") =>
          LET p == GetLayer(layers', cur[1].layerId)
              e == IF p = 0 THEN 0 ELSE GetFrame(layers'[p].frames, cur[1].frameIndex)
          IN  /\ e > 0
              /\ PubFrame(layers'[p].frames[e]) = PubFrame(cur[1].frameData[1])]_vars

\* C9: a composite's execute() calls execute() of every sub-command once, in list
\* order, and its undo() calls undo() of every sub-command once, in reverse order.
C9_CompositeOrder ==
    [][(pc # "idle" /\ pc' = "idle" /\ cur[1].type = "composite") =>
          LET n == Len(cur[1].commands)
          IN  log' = IF pc = "undo"
                     THEN [i \in 1..n |-> <<n + 1 - i, "undo">>]
                     ELSE [i \in 1..n |-> <<i, "execute">>]]_vars

\* frame 1 is in the layer's frame list and is a keyframe
FrameOneIsKeyframe ==
    LET p == GetFrame(layers[1].frames, 1)
    IN  p > 0 /\ layers[1].frames[p].isKeyframe

\* C10: in every state of a layer reached by insertKeyframe, insertBlankKeyframe,
\* clearKeyframe and addShapeAtFrame with indices >= 1 (and by rebuilding it from its
\* JSON), frame 1 exists and is a keyframe; clearKeyframe(1) keeps every frame in the
\* list, changes nothing but the shapes and isEmpty of frame 1, and leaves frame 1
\* without shapes when it returns.
C10_FrameOneAlwaysKeyframe ==
    /\ []FrameOneIsKeyframe
    /\ [][log' = <<<<1, "clearKeyframe">>>> =>
            LET before == layers[1].frames
                after == layers'[1].frames
                p == GetFrame(before, 1)
            IN  /\ Len(after) = Len(before)
                /\ GetFrame(after, 1) = p
                /\ \A i \in 1..Len(before) : i # p => after[i] = before[i]
                /\ after[p] = [before[p] EXCEPT !.shapes = after[p].shapes,
                                                !.isEmpty = after[p].isEmpty]
                /\ result' = "clearKeyframe:returned" =>
                      (after[p].shapes = <<>> /\ after[p].isEmpty)]_vars

\* clearKeyframe(1) returned on a layer with several frames whose frame 1 held shapes
\* at some time (a shape id has been drawn)
C10_Witness ==
    /\ log = <<<<1, "clearKeyframe">>>> /\ result = "clearKeyframe:returned"
    /\ Len(layers[1].frames) > 1
    /\ layers[1].frames[1].shapes = <<>>
    /\ nextId > 5

\* the indices of a frame list, in list order
Indices(frames) == [i \in 1..Len(frames) |-> frames[i].index]

\* C11: in every state of a layer reached by insertKeyframe, insertBlankKeyframe,
\* clearKeyframe and addShapeAtFrame, the frame list is sorted by index in strictly
\* ascending order: no two frames have the same index.
C11_FramesUniqueSorted ==
    \A l \in 1..Len(layers) : Increasing(Indices(layers[l].frames))

\* a frame was inserted below the highest index: the frame at list position 2 was
\* constructed after the frame at position 3
C11_Witness ==
    /\ Len(layers[1].frames) = 3
    /\ layers[1].frames[2].id > layers[1].frames[3].id
    /\ result \in {"insertKeyframe:returned", "insertBlankKeyframe:returned",
                   "addShapeAtFrame:returned"}

\* the ids of a list of shapes
ShapeIds(shapes) == {shapes[i].id : i \in 1..Len(shapes)}

\* C13: insertKeyframe(n) on an index without a frame, governed by a keyframe with
\* shapes S, gives frame n as many shapes as S, in the same order, each equal to its
\* original in everything but the id (the name included), with ids that are not in S.
C13_CarryForwardStructurallyEqual ==
    [][\A n \in 1..(MaxFrame + 1) :
          LET before == layers[1].frames
              after == layers'[1].frames
              k == GetKeyframeAt(before, n)
              p == GetFrame(after, n)
          IN  (/\ log' = <<<<n, "insertKeyframe">>>>
               /\ result' = "insertKeyframe:returned"
               /\ GetFrame(before, n) = 0
               /\ k > 0 /\ before[k].shapes # <<>>) =>
                  /\ p > 0
                  /\ Len(after[p].shapes) = Len(before[k].shapes)
                  /\ \A i \in 1..Len(before[k].shapes) :
                        /\ after[p].shapes[i].copies = before[k].shapes[i].copies
                        /\ after[p].shapes[i].id \notin ShapeIds(before[k].shapes)]_vars

\* C14: insertBlankKeyframe(n) leaves a keyframe at index n with no shapes, isEmpty
\* true and tweenType none, whatever was at n or before it; getShapesAtFrame(n) is
\* empty afterwards.
C14_BlankKeyframeIsBlank ==
    [][\A n \in 1..(MaxFrame + 1) :
          LET after == layers'[1].frames
              p == GetFrame(after, n)
          IN  log' = <<<<n, "insertBlankKeyframe">>>> =>
                  /\ p > 0
                  /\ after[p].isKeyframe /\ after[p].isEmpty
                  /\ after[p].shapes = <<>> /\ after[p].tweenType = "none"
                  /\ GetShapesAtFrame(after, n) = <<>>]_vars

\* C15: clearKeyframe(n) for n > 1 holding a keyframe removes that frame and changes no
\* other frame; afterwards getFrame(n) is undefined and, for every index from n up to
\* the next keyframe, getKeyframeAt and getShapesAtFrame answer with the keyframe that
\* precedes n.
C15_ClearKeyframeRemovesFrame ==
    [][\A n \in 2..(MaxFrame + 1) :
          LET before == layers[1].frames
              after == layers'[1].frames
              p == GetFrame(before, n)
              prev == GetKeyframeAt(before, n - 1)
              next == GetNextKeyframe(before, n)
              upTo == IF next = 0 THEN MaxFrame + 2 ELSE before[next].index - 1
          IN  (log' = <<<<n, "clearKeyframe">>>> /\ p > 0 /\ before[p].isKeyframe) =>
                  /\ result' = "clearKeyframe:returned"
                  /\ after = RemoveAt(before, p)
                  /\ GetFrame(after, n) = 0
                  /\ prev > 0
                  /\ \A m \in n..upTo :
                        /\ GetKeyframeAt(after, m) > 0
                        /\ after[GetKeyframeAt(after, m)] = before[prev]
                        /\ GetShapesAtFrame(after, m) = before[prev].shapes]_vars

\* clearKeyframe(2) was called on a layer that is left with a keyframe at 1 holding
\* shapes and a keyframe at 3, and more ids were drawn than the layer still holds
C15_Witness ==
    /\ log = <<<<2, "clearKeyframe">>>> /\ result = "clearKeyframe:returned"
    /\ Indices(layers[1].frames) = <<1, 3>>
    /\ layers[1].frames[1].shapes # <<>>
    /\ nextId - 4 > 1 + Len(layers[1].frames[1].shapes) + Len(layers[1].frames[2].shapes)

\* C16: after addShapeAtFrame(n, shape) a keyframe exists at index n and the shape is
\* the last of its shapes; when n had no keyframe of its own, the keyframe holds clones
\* of the governing keyframe's shapes before the new shape, and the governing
\* keyframe is unchanged.
C16_AddShapeMaterializesKeyframe ==
    [][\A n \in 1..(MaxFrame + 1) :
          LET before == layers[1].frames
              after == layers'[1].frames
              k == GetKeyframeAt(before, n)
              p == GetFrame(after, n)
          IN  log' = <<<<n, "addShapeAtFrame">>>> =>
                  /\ p > 0 /\ after[p].isKeyframe
                  /\ after[p].shapes # <<>>
                  /\ Last(after[p].shapes) = NewShape(nextId)
                  /\ (k > 0 /\ before[k].index # n) =>
                        /\ Len(after[p].shapes) = Len(before[k].shapes) + 1
                        /\ after[GetFrame(after, before[k].index)] = before[k]]_vars

\* C12: getKeyframeAt(n) answers with a keyframe whose index is <= n and is the
\* greatest such index among the keyframes; it answers undefined exactly when no
\* keyframe has an index <= n; on a layer whose only frame is the keyframe at 1 the
\* answer is that frame for every n >= 1.
C12_GetKeyframeAtNearestBefore ==
    (Len(log) = 1 /\ log[1][2] = "getKeyframeAt") =>
        LET frames == layers[1].frames
            n == log[1][1]
            k == log[1][3]
            K == {i \in 1..Len(frames) : frames[i].isKeyframe /\ frames[i].index <= n}
        IN  /\ (k = 0) <=> (K = {})
            /\ k # 0 => (k \in K /\ \A i \in K : frames[i].index <= frames[k].index)
            /\ (Len(frames) = 1 /\ frames[1].index = 1 /\ frames[1].isKeyframe) => k = 1

\* getKeyframeAt(2) answered with the keyframe at 1 on a layer that has a frame at 2
\* which is no keyframe and a keyframe at 3
C12_Witness ==
    /\ log = <<<<2, "getKeyframeAt", 1>>>>
    /\ Indices(layers[1].frames) = <<1, 2, 3>>
    /\ ~layers[1].frames[2].isKeyframe /\ layers[1].frames[3].isKeyframe

\* C18: every frame that is no keyframe has tweenType none; setMotionTween and
\* setShapeTween leave a frame that is no keyframe as it is, and Frame.clearKeyframe
\* leaves the frame with tweenType none.
C18_NonKeyframeHasNoTween ==
    /\ [](\A l \in 1..Len(layers) : \A i \in 1..Len(layers[l].frames) :
             ~layers[l].frames[i].isKeyframe => layers[l].frames[i].tweenType = "none")
    /\ [][\A n \in 1..(MaxFrame + 1) :
             LET p == GetFrame(layers[1].frames, n)
             IN  /\ (/\ log' \in {<<<<n, "Frame.setMotionTween">>>>,
                                  <<<<n, "Frame.setShapeTween">>>>}
                     /\ ~layers[1].frames[p].isKeyframe) => layers' = layers
                 /\ log' = <<<<n, "Frame.clearKeyframe">>>> =>
                       /\ ~layers'[1].frames[p].isKeyframe
                       /\ layers'[1].frames[p].tweenType = "none"]_vars

\* Frame.clearKeyframe() has demoted a keyframe that carried a motion tween (its easing
\* is still set)
C18_Witness ==
    /\ log = <<<<2, "Frame.clearKeyframe">>>>
    /\ \E i \in 1..Len(layers[1].frames) :
          /\ layers[1].frames[i].index = 2
          /\ ~layers[1].frames[i].isKeyframe
          /\ layers[1].frames[i].easing = "linear"

\* C17: in every state, on every frame of every layer, isEmpty is true exactly when
\* the shapes list is empty: after addShape, removeShape, clear, makeBlankKeyframe,
\* the carry-forward of insertKeyframe, and after the undo of a command that rewrites
\* a frame's shapes.
C17_IsEmptyIffNoShapes ==
    \A l \in 1..Len(layers) : \A i \in 1..Len(layers[l].frames) :
        layers[l].frames[i].isEmpty <=> (layers[l].frames[i].shapes = <<>>)

\* the undo of a ClearKeyframeCommand that had cleared a keyframe has returned: it
\* rewrote the shapes and isEmpty of the frame it re-inserted
C17_Witness ==
    /\ pc = "idle" /\ result = "undo:true"
    /\ redoStack # <<>>
    /\ Last(redoStack).type = "clearKeyframe"
    /\ Len(Last(redoStack).frameData) = 1
    /\ Len(undoStack) > 0

\* the Document methods that insert, clear, add and remove on a layer
KeyframeInserts == {"insertKeyframe", "insertBlankKeyframe"}

LayerMutations == KeyframeInserts \cup {"clearKeyframe", "addShape", "removeSelectedShapes"}

\* C19: Document.insertKeyframe, insertBlankKeyframe, clearKeyframe, addShape and
\* removeSelectedShapes called while their target layer (the layer named by the
\* layerId argument, else the selected layer) is locked or does not exist leave every
\* layer as it is and emit no event; the two inserts return null.
C19_LockedOrMissingLayerNoOp ==
    [][(Len(log') = 1 /\ log'[1][2] \in LayerMutations) =>
          LET method == log'[1][2]
              target == IF log'[1][1] # 0 THEN log'[1][1] ELSE selectedLayerId
              S == {i \in 1..Len(layers) : layers[i].id = target}
          IN  (S = {} \/ \A i \in S : layers[i].locked) =>
                  /\ layers' = layers
                  /\ log'[1][3] = <<>>
                  /\ method \in KeyframeInserts => result' = method \o ":null"]_vars

\* insertKeyframe was called with the id of a layer that is in the stack, holds a shape
\* and is locked, and returned null
C19_Witness ==
    /\ Len(log) = 1 /\ log[1][2] = "insertKeyframe" /\ result = "insertKeyframe:null"
    /\ \E i \in 1..Len(layers) :
          /\ layers[i].id = log[1][1]
          /\ layers[i].locked
          /\ layers[i].frames[1].shapes # <<>>

\* C20: the layer stack always holds at least one layer; removeLayer on a document
\* with exactly one layer returns false, changes nothing and emits no event.
C20_LastLayerStays ==
    /\ [](Len(layers) >= 1)
    /\ [][(Len(log') = 1 /\ log'[1][2] = "removeLayer" /\ Len(layers) = 1) =>
             /\ result' = "removeLayer:false"
             /\ UNCHANGED docVars
             /\ log'[1][3] = <<>>]_vars

\* removeLayer was called with the id of the only layer left and returned false; that
\* layer is one that was added, the document's first layer having been removed
C20_Witness ==
    /\ Len(log) = 1 /\ log[1][2] = "removeLayer" /\ result = "removeLayer:false"
    /\ Len(layers) = 1 /\ log[1][1] = layers[1].id
    /\ layers[1].id # 2

\* the Document methods that change the layer stack or the selected layer
LayerStackCalls == {"addLayer", "removeLayer", "selectLayer"}

\* C21: on any Document, fresh or built from persisted data, after addLayer,
\* removeLayer or selectLayer the selected-layer id is the id of a layer in the layer
\* stack; removing the selected layer selects a remaining layer, and selectLayer with
\* an id that names no layer changes nothing.
C21_SelectedLayerInStack ==
    [][(Len(log') = 1 /\ log'[1][2] \in LayerStackCalls) =>
          LET method == log'[1][2]
              layerId == log'[1][1]
              idsAfter == {layers'[i].id : i \in 1..Len(layers')}
          IN  /\ selectedLayerId' \in idsAfter
              /\ (method = "removeLayer" /\ result' = "removeLayer:true"
                    /\ layerId = selectedLayerId) =>
                     selectedLayerId' \in idsAfter \ {layerId}
              /\ (method = "selectLayer" /\ GetLayer(layers, layerId) = 0) =>
                     UNCHANGED docVars /\ log'[1][3] = <<>>]_vars

\* the calls that assign the playhead: the setter and the four navigation methods
PlayheadCalls == {"currentFrame", "nextFrame", "prevFrame", "firstFrame", "lastFrame"}

\* the value a playhead call assigns
Assigned ==
    LET method == log'[1][2]
    IN  IF method = "currentFrame" THEN log'[1][1]
        ELSE IF method = "nextFrame" THEN currentFrame + 1
        ELSE IF method = "prevFrame" THEN currentFrame - 1
        ELSE IF method = "firstFrame" THEN 1
        ELSE TotalFrames(World)

\* C22: the playhead is always >= 1; assigning currentFrame a value v (directly or
\* through nextFrame, prevFrame, firstFrame, lastFrame) stores the larger of 1 and v,
\* and frameChange is emitted exactly when the stored value differs from the previous
\* one, and then once; prevFrame at frame 1 emits nothing.
C22_PlayheadClamped ==
    /\ [](currentFrame >= 1)
    /\ [][(Len(log') = 1 /\ log'[1][2] \in PlayheadCalls) =>
             /\ currentFrame' = (IF Assigned > 1 THEN Assigned ELSE 1)
             /\ log'[1][3] = (IF currentFrame' # currentFrame
                              THEN <<"frameChange">> ELSE <<>>)
             /\ (log'[1][2] = "prevFrame" /\ currentFrame = 1) =>
                    currentFrame' = 1 /\ log'[1][3] = <<>>]_vars

\* prevFrame() was called at frame 1 after the playhead had been away from frame 1: the
\* playhead is still at 1 and nothing was emitted
C22_Witness ==
    /\ Len(log) = 1 /\ log[1][2] = "prevFrame" /\ log[1][3] = <<>>
    /\ currentFrame = 1
    /\ \E l \in 1..Len(layers) : GetFrameCount(layers[l].frames) > MinTotalFrames

\* C26: a playback tick started at frame f < totalFrames ends with the playhead at
\* f + 1, and a tick started at frame totalFrames ends with the playhead at 1.
C26_TickAdvancesOneFrame ==
    [][(Len(log') = 1 /\ log'[1][2] = "tick") =>
          /\ currentFrame < TotalFrames(World) => currentFrame' = currentFrame + 1
          /\ currentFrame = TotalFrames(World) => currentFrame' = 1]_vars

\* the entries of a list that carry this layer id, in the order of the list
EntriesOf(list, layerId) ==
    LET RECURSIVE Pick(_)
        Pick(i) == IF i > Len(list) THEN <<>>
                   ELSE IF list[i].layerId = layerId THEN <<list[i].shape>> \o Pick(i + 1)
                   ELSE Pick(i + 1)
    IN  Pick(1)

\* C23: getVisibleShapes() returns the shapes back to front: the shapes of a visible
\* layer stored at a higher index come before the shapes of a visible layer stored at
\* a lower index, the shapes of one layer keep the order of their frame, and a layer
\* with visible = false contributes nothing.
C23_VisibleShapesBackToFront ==
    (Len(log) = 1 /\ log[1][2] = "getVisibleShapes") =>
        LET list == log[1][3]
        IN  /\ \A p, q \in 1..Len(list) :
                  p < q => GetLayer(layers, list[p].layerId) >= GetLayer(layers, list[q].layerId)
            /\ \A i \in 1..Len(layers) :
                  EntriesOf(list, layers[i].id) =
                      IF layers[i].visible
                      THEN GetShapesAtFrame(layers[i].frames, currentFrame)
                      ELSE <<>>
            /\ \A p \in 1..Len(list) : GetLayer(layers, list[p].layerId) > 0

\* getVisibleShapes() returned the two shapes of the lower layer before the shape of
\* the layer above it, the lower layer being the one added later and moved down
C23_Witness ==
    /\ Len(log) = 1 /\ log[1][2] = "getVisibleShapes"
    /\ Len(log[1][3]) = 3
    /\ Len(layers) = 2
    /\ layers[2].id > layers[1].id
    /\ log[1][3][1].layerId = layers[2].id /\ log[1][3][2].layerId = layers[2].id
    /\ log[1][3][3].layerId = layers[1].id

\* how many times a callback occurs in a list of callbacks
Occurrences(list, callback) == Cardinality({i \in 1..Len(list) : list[i] = callback})

\* C24: emit(name) invokes the callbacks subscribed under that name, each once per
\* subscription, in the order in which on() subscribed them (on() puts a callback
\* after those subscribed before it); callbacks subscribed under other names are not
\* invoked, and a subscription removed with off() before the emit is not invoked.
C24_EmitInSubscriptionOrder ==
    [][Len(log') = 1 =>
          LET event == log'[1][1]
              method == log'[1][2]
          IN  /\ method = "emit" => log'[1][3] = listeners[event]
              /\ method = "on" =>
                    /\ listeners'[event] = Append(listeners[event], log'[1][3][1])
                    /\ \A e \in EventNames \ {event} : listeners'[e] = listeners[e]
              /\ method = "off" =>
                    /\ \A c \in Callbacks :
                          Occurrences(listeners'[event], c) =
                              IF c = log'[1][3][1] /\ Occurrences(listeners[event], c) > 0
                              THEN Occurrences(listeners[event], c) - 1
                              ELSE Occurrences(listeners[event], c)
                    /\ \A e \in EventNames \ {event} : listeners'[e] = listeners[e]]_vars

\* the outcomes of the Document's mutating methods that mean the call threw
ThrownResults ==
    {m \o ":threw" : m \in LayerMutations \cup LayerStackCalls}

\* C25: for every Document doc reached through the mutation API,
\* Document.fromJSON(doc.toJSON()) is a Document whose toJSON() returns and is
\* deep-equal to doc.toJSON(), and the reloaded Document accepts further mutations
\* like the original: none of them throws.
C25_FromJSONRoundTrip ==
    /\ [][(Len(log') = 1 /\ log'[1][2] = "fromJSON") =>
             /\ ~DocToJSONThrows(World')
             /\ DocToJSON(World') = DocToJSON(World)]_vars
    /\ [](result \notin ThrownResults)

\* C27: lerpAngle(350, 10, 0.5) equals 0.
C27_LerpAngleThroughZero ==
    (Len(log) = 1 /\ log[1][2] = "lerpAngle") =>
        LET a == log[1][1][1]
            b == log[1][1][2]
            n == log[1][1][3]
        IN  (a = 350 /\ b = 10 /\ 2 * n = ProgressDen) => log[1][3] = 0 * ProgressDen

\* C28: lerpAngle(a, b, t) equals a + d*t, where d is the value congruent to b - a
\* modulo 360 that lies in (-180, 180]: when b - a is congruent to 180 the delta is
\* +180, never -180.
C28_LerpAngleHalfOpenDelta ==
    (Len(log) = 1 /\ log[1][2] = "lerpAngle") =>
        LET a == log[1][1][1]
            b == log[1][1][2]
            n == log[1][1][3]
            d == CHOOSE d \in (1 - HalfTurn)..HalfTurn : (b - a - d) % FullTurn = 0
        IN  log[1][3] = a * ProgressDen + d * n

\* the components of a transform that lerpTransform interpolates with lerp
LinearComponents == {"x", "y", "scaleX", "scaleY", "skewX", "skewY", "alpha"}

\* C29: calculateTweenedShapes(start, end, progress, easing) returns one triple per
\* start shape, in order, followed by one triple per end shape whose id is not in
\* start, in order.  A start shape with an id-matched end shape gets the transform
\* interpolated component by component at easedProgress (the rotation along a path of
\* at most half a turn) and progress easedProgress; a start shape with no match gets a
\* copy of its own transform and progress 0; an end-only shape gets the end transform
\* with alpha = end alpha * easedProgress.  The two input lists, their shapes and
\* transforms are after the call what they were before.
C29_TweenedShapes ==
    (Len(log) = 1 /\ log[1][2] = "calculateTweenedShapes") =>
        LET start == log[1][1].startShapes
            end == log[1][1].endShapes
            e == EasedProgress(log[1][1].easing, log[1][1].progress)
            out == log[1][3].results
            startIds == {start[i].id : i \in 1..Len(start)}
            endOnly == SelectSeq(end, LAMBDA s : s.id \notin startIds)
        IN  /\ Len(out) = Len(start) + Len(endOnly)
            /\ \A i \in 1..Len(start) :
                  LET from == start[i].transform
                      J == {j \in 1..Len(end) : end[j].id = start[i].id}
                  IN  /\ out[i].originalShape = start[i]
                      /\ J = {} =>
                            /\ out[i].tweenedTransform =
                                   [f \in DOMAIN from |-> from[f] * EasedDen]
                            /\ out[i].progress = 0
                      /\ J # {} =>
                            LET to == end[Min(J)].transform
                            IN  /\ \A f \in LinearComponents :
                                      out[i].tweenedTransform[f] =
                                          from[f] * EasedDen + (to[f] - from[f]) * e
                                /\ \E d \in (-HalfTurn)..HalfTurn :
                                      /\ (to.rotation - from.rotation - d) % FullTurn = 0
                                      /\ out[i].tweenedTransform.rotation =
                                             from.rotation * EasedDen + d * e
                                /\ out[i].progress = e
            /\ \A k \in 1..Len(endOnly) :
                  LET o == out[Len(start) + k]
                      to == endOnly[k].transform
                  IN  /\ o.originalShape = endOnly[k]
                      /\ \A f \in DOMAIN to \ {"alpha"} : o.tweenedTransform[f] = to[f] * EasedDen
                      /\ o.tweenedTransform.alpha = to.alpha * e
            /\ log[1][3].startShapes = start
            /\ log[1][3].endShapes = end

\* calculateTweenedShapes was called at progress 0.5 with easeIn on a start shape that
\* has a match with another transform and an opaque end-only shape listed before the
\* match: the result holds the interpolated match, then the end-only shape at a
\* quarter of its alpha
C29_Witness ==
    /\ Len(log) = 1 /\ log[1][2] = "calculateTweenedShapes"
    /\ 2 * log[1][1].progress = ProgressDen /\ log[1][1].easing = "easeIn"
    /\ Len(log[1][1].startShapes) = 1 /\ Len(log[1][1].endShapes) = 2
    /\ log[1][1].endShapes[2].id = log[1][1].startShapes[1].id
    /\ log[1][1].endShapes[2].transform # log[1][1].startShapes[1].transform
    /\ log[1][1].endShapes[1].transform.alpha = 1
    /\ Len(log[1][3].results) = 2
    /\ 4 * log[1][3].results[2].tweenedTransform.alpha = EasedDen

\* C30: on a new Document, after addLayer(), one rectangle drawn on the keyframe at
\* frame 1, insertKeyframe(layer, EndFrame) and the shape it carried forward moved to
\* x = MoveX, with a linear motion tween on frame 1: the tween engine, queried with the
\* shapes of frame 1 and of EndFrame at progress 0.5, gives the shape a transform
\* with x half way, MoveX / 2.
C30_TweenMidpoint ==
    (Len(log) = 1 /\ log[1][2] = "calculateTweenedShapes") =>
        LET start == log[1][1].startShapes
            end == log[1][1].endShapes
            out == log[1][3].results
        IN  (/\ Len(layers) = 2
             /\ Len(start) = 1 /\ Len(end) = 1
             /\ start[1].transform.x = 0 /\ end[1].transform.x = MoveX
             /\ log[1][1].easing = "linear" /\ 2 * log[1][1].progress = ProgressDen) =>
                /\ Len(out) >= 1
                /\ out[1].originalShape = start[1]
                /\ 2 * out[1].tweenedTransform.x = MoveX * EasedDen

-----------------------------------------------------------------------------
(* C31: in every state reachable by execute, undo, redo and setMaxHistory   *)
(* calls the undo stack holds at most maxHistory commands.                  *)
C31_UndoStackWithinMaxHistory == Len(undoStack) <= maxHistory

\* the calls so far were executes that returned and then one undo()
ExecuteThenUndo ==
    /\ Len(trace) >= 2
    /\ AllAre(1, Len(trace) - 1, "e")
    /\ Last(trace) \in {"u", "v"}

\* C32: execute() immediately followed by undo() through the HistoryManager leaves
\* the layer stack (layers, frames, shapes, ids included) exactly as it was before
\* the execute(), for every concrete command.
C32_ExecuteUndoRestores ==
    (pc = "idle" /\ ~moved /\ ExecuteThenUndo) =>
        /\ Last(trace) = "u"
        /\ PubLayers(layers) = snaps[Len(snaps) - 1]

\* C33: the ids of the layers in the Document's layer stack are pairwise distinct in
\* every state reachable through AddLayerCommand and RemoveLayerCommand run by
\* execute, undo and redo, also when RemoveLayerCommand is executed on the last
\* remaining layer and then undone.
C33_LayerIdsDistinct ==
    \A i, j \in 1..Len(layers) : i # j => layers[i].id # layers[j].id

\* C34: no command executed, undone or redone through the HistoryManager changes the
\* frames (with their shapes and tween settings) of a layer that is locked when the
\* command runs.
C34_LockedLayerUntouched ==
    [][(pc # "idle" /\ pc' = "idle") =>
          \A p \in 1..Len(layers) :
              layers[p].locked =>
                  (p <= Len(layers') /\ layers'[p].frames = layers[p].frames)]_vars

\* C35: when the command's undo() throws during HistoryManager.undo(), or its
\* execute() throws during redo(), the command is not lost: after the failed call the
\* two stacks together hold as many commands as before the call (the stacks as the
\* call found them: what they hold while the command runs, and the command itself).
C35_ThrowingCommandKept ==
    [][(pc \in {"undo", "redo"} /\ pc' = "idle" /\ Last(trace') \in {"v", "s"}) =>
          Len(undoStack') + Len(redoStack') = Len(undoStack) + Len(redoStack) + 1]_vars

\* the shapes with the given id in any frame of any layer
ShapesWithId(ls, shapeId) ==
    {ls[p].frames[k].shapes[i] :
        <<p, k, i>> \in {t \in (1..Len(ls)) \X (1..MaxId) \X (1..MaxId) :
                            /\ t[2] <= Len(ls[t[1]].frames)
                            /\ t[3] <= Len(ls[t[1]].frames[t[2]].shapes)
                            /\ ls[t[1]].frames[t[2]].shapes[t[3]].id = shapeId}}

\* C36: what undo() and redo() of a MoveShapesCommand do does not depend on the
\* playhead or on layer visibility at that time: wherever the playhead is and
\* whichever layers are hidden, after undo() the moved shapes are where they were
\* before execute(), and after redo() they are where execute() put them.
C36_UndoIndependentOfView ==
    [][(pc \in {"undo", "redo"} /\ pc' = "idle" /\ cur[1].type = "moveShapes") =>
          \A m \in Range(cur[1].movements) :
              \A s \in ShapesWithId(layers', m.shapeId) :
                  IF pc = "undo"
                  THEN s.transform.x = m.startX /\ s.transform.y = m.startY
                  ELSE s.transform.x = m.endX /\ s.transform.y = m.endY]_vars

\* the ids of the shapes held by the frames of the layers
AllShapeIds(ls) ==
    UNION {{ls[p].frames[k].shapes[i].id : i \in 1..Len(ls[p].frames[k].shapes)} :
              <<p, k>> \in {t \in (1..Len(ls)) \X (1..MaxId) : t[2] <= Len(ls[t[1]].frames)}}

\* C37: after any sequence of Document mutations every id in the selected-shape set
\* is the id of a shape held by some frame of some layer.
C37_SelectionExists == selectedShapeIds \subseteq AllShapeIds(layers)

\* C38: whenever a keyframe has tweenType motion or shape, its layer has a later
\* keyframe for the tween to end on.
C38_TweenHasEndKeyframe ==
    \A p \in 1..Len(layers) :
        \A k \in 1..Len(layers[p].frames) :
            (layers[p].frames[k].isKeyframe
                 /\ layers[p].frames[k].tweenType \in {"motion", "shape"}) =>
                GetNextKeyframe(layers[p].frames, layers[p].frames[k].index) > 0

\* C39: during an emit(event) that returns, every callback that was subscribed to
\* the event when the emit started and that does not unsubscribe itself is invoked
\* once for each of its subscriptions, not fewer (none is skipped) and, unless it is
\* subscribed anew while the emit runs, not more, also when a callback calls off()
\* or on() for the same event during the emit.
C39_EmitCallsEverySubscriber ==
    [][(Len(log') = 1 /\ log'[1][2] = "emit" /\ result' = "emit:undefined") =>
          LET before == listeners[log'[1][1]]
              invoked == log'[1][3]
          IN  /\ \A c \in Callbacks \ {"once"} :
                    Occurrences(invoked, c) >= Occurrences(before, c)
              /\ \A c \in Callbacks \ {"a"} :
                    Occurrences(invoked, c) <= Occurrences(before, c)]_vars

\* the latest call was a tick of the playback timer
TickRan == Len(log) = 1 /\ log[1][2] = "tick"

\* C40: while playback runs and the timer keeps firing with no edits in between,
\* from any playhead position, also one beyond totalFrames, the playhead comes back
\* to frame 1, moves on from there and comes back again, for as long as playback is
\* not stopped; once playback is stopped no tick changes the playhead.
C40_PlaybackLoops ==
    /\ [](isPlaying => <>(currentFrame = 1 \/ ~isPlaying))
    /\ []((isPlaying /\ currentFrame = 1) => <>(currentFrame # 1 \/ ~isPlaying))
    /\ [][(~isPlaying /\ ~isPlaying') => UNCHANGED currentFrame \/ ~TickRan']_vars

\* playback runs and a tick has just brought the playhead back to frame 1 on a
\* timeline longer than its minimum
C40_Witness ==
    /\ isPlaying /\ TickRan /\ currentFrame = 1
    /\ log[1][3] = <<"frameChange", "frameChange", "render">>
    /\ TotalFrames(World) > MinTotalFrames

====
